---- MODULE Spec2Model ----
(***************************************************************************)
(* A model of the VeilMail SDK: the VeilMail / HttpClient constructors,    *)
(* HttpClient.request with its timeout timer and AbortController, the      *)
(* error taxonomy built by parseApiError, the resource facades over the    *)
(* transport, and the sign-in flow of the authjs-nextjs example.           *)
(*                                                                         *)
(* JavaScript values are tagged records, so that undefined, null, strings, *)
(* numbers, arrays and objects stay distinct and optional chaining, the    *)
(* ?? operator and truthiness are computed the way the code computes them. *)
(***************************************************************************)
EXTENDS Integers, Sequences, FiniteSets, TLC

VARIABLES
    arg,          \* the argument given to `new VeilMail(apiKeyOrConfig)`
    client,       \* the constructed client, or the error the constructor threw
    call,         \* the current invocation of HttpClient.request
    invocations,  \* number of invocations of request so far
    netCalls,     \* number of fetch() calls issued so far
    facade,       \* the current invocation of a resource facade method
    calls,        \* the invocations of request in flight at the same time
    app           \* the example application: users, tokens, mail, session

vars == <<arg, client, call, invocations, netCalls, facade, calls, app>>

(***************************************************************************)
(* JavaScript values                                                       *)
(***************************************************************************)
Undef == [t |-> "undefined"]
Null == [t |-> "null"]
Str(s) == [t |-> "string", s |-> s]
Num(n) == [t |-> "number", n |-> n]
Arr(a) == [t |-> "array", a |-> a]
Obj(f) == [t |-> "object", f |-> f]
NaN == [t |-> "NaN"]
Bool(b) == [t |-> "boolean", b |-> b]
NoFields == [k \in {} |-> Undef]

\* The text of a body that is the JSON encoding of v: a non-empty string
\* whose characters are not spelled out.
JsonText(v) == [t |-> "string", jsonOf |-> v]

IsNullish(v) == v.t \in {"undefined", "null"}

\* v.k for a non-nullish v: only objects have own properties here.
Get(v, k) == IF v.t = "object" /\ k \in DOMAIN v.f THEN v.f[k] ELSE Undef

\* v?.k
OptGet(v, k) == IF IsNullish(v) THEN Undef ELSE Get(v, k)

\* a ?? b
Coalesce(a, b) == IF IsNullish(a) THEN b ELSE a

\* ToBoolean(v)
Truthy(v) ==
    CASE v.t = "undefined" -> FALSE
      [] v.t = "null" -> FALSE
      [] v.t = "string" -> IF "s" \in DOMAIN v THEN v.s # "" ELSE TRUE
      [] v.t = "number" -> v.n # 0
      [] v.t = "NaN" -> FALSE
      [] v.t = "boolean" -> v.b
      [] OTHER -> TRUE

\* A parameter default (`message = '...'`): used only for undefined.
DefaultParam(v, d) == IF v = Undef THEN d ELSE v

\* String.prototype.startsWith
StartsWith(s, p) == Len(s) >= Len(p) /\ SubSeq(s, 1, Len(p)) = p

\* String.prototype.includes
Includes(s, p) ==
    \E i \in 1..(Len(s) - Len(p) + 1) : SubSeq(s, i, i + Len(p) - 1) = p

\* s.replace(/\/$/, '')
StripTrailingSlash(s) ==
    IF Len(s) > 0 /\ SubSeq(s, Len(s), Len(s)) = "/"
    THEN SubSeq(s, 1, Len(s) - 1)
    ELSE s

(***************************************************************************)
(* Errors                                                                  *)
(***************************************************************************)
\* An error object. code, status, details, piiTypes and retryAfter are
\* JavaScript values; a plain Error has them all undefined.
ErrorObject(name, message, code, status, details) ==
    [name |-> name, message |-> message, code |-> code, status |-> status,
     details |-> details, piiTypes |-> Undef, retryAfter |-> Undef]

PlainError(name, message) ==
    ErrorObject(name, Str(message), Undef, Undef, Undef)

NoError == PlainError("", "")

VeilMailErrorNames ==
    {"VeilMailError", "AuthenticationError", "ForbiddenError", "NotFoundError",
     "ValidationError", "PiiDetectedError", "RateLimitError", "ServerError",
     "TimeoutError", "NetworkError"}

\* error instanceof VeilMailError
IsVeilMailError(e) == e.name \in VeilMailErrorNames

VeilMailError(message, code, status, details) ==
    ErrorObject("VeilMailError", message, code, status, details)

AuthenticationError(message) ==
    [VeilMailError(DefaultParam(message, Str("Invalid API key")),
                   Str("authentication_error"), Num(401), Undef)
        EXCEPT !.name = "AuthenticationError"]

ForbiddenError(message) ==
    [VeilMailError(DefaultParam(message, Str("Access denied")),
                   Str("forbidden"), Num(403), Undef)
        EXCEPT !.name = "ForbiddenError"]

NotFoundError(resource, id) ==
    [VeilMailError(IF Truthy(id)
                   THEN Str(resource \o " with ID '" \o id.s \o "' not found")
                   ELSE Str(resource \o " not found"),
                   Str("not_found"), Num(404), Undef)
        EXCEPT !.name = "NotFoundError"]

ValidationError(message, details) ==
    [VeilMailError(message, Str("validation_error"), Num(400), details)
        EXCEPT !.name = "ValidationError"]

PiiDetectedError(message, piiTypes) ==
    [VeilMailError(message, Str("pii_detected"), Num(422),
                   Obj([piiTypes |-> piiTypes]))
        EXCEPT !.name = "PiiDetectedError", !.piiTypes = piiTypes]

RateLimitError(message, retryAfter) ==
    [VeilMailError(DefaultParam(message, Str("Rate limit exceeded")),
                   Str("rate_limit"), Num(429),
                   IF Truthy(retryAfter)
                   THEN Obj([retryAfter |-> retryAfter])
                   ELSE Undef)
        EXCEPT !.name = "RateLimitError", !.retryAfter = retryAfter]

ServerError(message, status) ==
    [VeilMailError(DefaultParam(message, Str("Internal server error")),
                   Str("server_error"), DefaultParam(status, Num(500)), Undef)
        EXCEPT !.name = "ServerError"]

TimeoutError(timeout) ==
    [VeilMailError(Str("Request timed out after " \o ToString(timeout) \o "ms"),
                   Str("timeout"), Undef, Undef)
        EXCEPT !.name = "TimeoutError"]

NetworkError(message) ==
    [VeilMailError(Str(message), Str("network_error"), Undef, Undef)
        EXCEPT !.name = "NetworkError"]

(***************************************************************************)
(* Responses                                                               *)
(***************************************************************************)
DigitChars == {"0", "1", "2", "3", "4", "5", "6", "7", "8", "9"}

DigitValue(c) ==
    CASE c = "0" -> 0 [] c = "1" -> 1 [] c = "2" -> 2 [] c = "3" -> 3
      [] c = "4" -> 4 [] c = "5" -> 5 [] c = "6" -> 6 [] c = "7" -> 7
      [] c = "8" -> 8 [] c = "9" -> 9

\* Number of leading decimal digits of s.
LeadingDigits(s) ==
    IF \A i \in 1..Len(s) : SubSeq(s, i, i) \in DigitChars
    THEN Len(s)
    ELSE (CHOOSE i \in 1..Len(s) :
            /\ SubSeq(s, i, i) \notin DigitChars
            /\ \A j \in 1..(i - 1) : SubSeq(s, j, j) \in DigitChars) - 1

RECURSIVE DecimalValue(_, _)
DecimalValue(s, n) ==
    IF n = 0 THEN 0
    ELSE 10 * DecimalValue(s, n - 1) + DigitValue(SubSeq(s, n, n))

\* parseInt(s, 10) of a string without leading white space or sign.
ParseInt(s) ==
    IF LeadingDigits(s) = 0 THEN NaN
    ELSE Num(DecimalValue(s, LeadingDigits(s)))

\* response.ok
ResponseOk(response) == response.status >= 200 /\ response.status <= 299

\* A body that never arrived yet.
NoBody == [kind |-> "none"]

\* A body whose text is the JSON encoding of v.
JsonBody(v) == [kind |-> "json", value |-> v]

\* A body whose text s is not valid JSON (the empty text included).
TextBody(s) == [kind |-> "text", text |-> s]

\* response.json() succeeds exactly on a body that is valid JSON.
JsonParses(body) == body.kind = "json"

\* The value of response.json()
ResponseJson(body) == body.value

\* The value of response.text()
ResponseText(body) ==
    IF body.kind = "json" THEN JsonText(body.value) ELSE Str(body.text)

NoResponse ==
    [status |-> 0, statusText |-> "", contentType |-> Null,
     retryAfter |-> Null, body |-> NoBody]

(***************************************************************************)
(* parseApiError                                                           *)
(***************************************************************************)
parseApiError(response, body) ==
    LET status == response.status
        message == Coalesce(OptGet(OptGet(body, "error"), "message"),
                            Str(response.statusText))
        code == Coalesce(OptGet(OptGet(body, "error"), "code"),
                         Str("unknown_error"))
        details == OptGet(OptGet(body, "error"), "details")
    IN  CASE status = 401 -> AuthenticationError(message)
          [] status = 403 -> ForbiddenError(message)
          [] status = 404 -> NotFoundError("Resource", Undef)
          [] status = 422 ->
                IF code = Str("pii_detected") /\ Truthy(OptGet(details, "piiTypes"))
                THEN PiiDetectedError(message, Get(details, "piiTypes"))
                ELSE ValidationError(message, details)
          [] status = 429 ->
                LET retryAfter == response.retryAfter
                IN  RateLimitError(message,
                                   IF Truthy(retryAfter)
                                   THEN ParseInt(retryAfter.s)
                                   ELSE Undef)
          [] OTHER ->
                IF status >= 500
                THEN ServerError(message, Num(status))
                ELSE VeilMailError(message, code, Num(status), details)

(***************************************************************************)
(* Construction                                                            *)
(***************************************************************************)
DEFAULT_BASE_URL == "https://api.veilmail.xyz"
DEFAULT_TIMEOUT == 30000

LivePrefix == "veil_live_"
TestPrefix == "veil_test_"

FacadeNames ==
    {"emails", "domains", "templates", "audiences", "campaigns", "sequences",
     "feeds", "forms", "webhooks", "topics", "properties", "analytics",
     "validation", "inbound", "dedicatedIps", "smtp", "auditLogs"}

\* What a `new` expression leaves behind: the object, or the error thrown.
Constructed(apiKey, baseUrl, timeout) ==
    [ok |-> TRUE, apiKey |-> apiKey, baseUrl |-> baseUrl, timeout |-> timeout,
     facades |-> {}, thrown |-> NoError]

ConstructorThrew(message) ==
    [ok |-> FALSE, apiKey |-> "", baseUrl |-> "", timeout |-> 0,
     facades |-> {}, thrown |-> PlainError("Error", message)]

\* HttpClientConstructor with a prefix test that looks for "veil_" only.
HttpClientConstructorLoosePrefix(config) ==
    LET apiKey == Get(config, "apiKey")
        baseUrl == Get(config, "baseUrl")
        timeout == Get(config, "timeout")
    IN  IF ~Truthy(apiKey)
        THEN ConstructorThrew("API key is required")
        ELSE IF ~StartsWith(apiKey.s, "veil_")
        THEN ConstructorThrew("Invalid API key format. API keys should start with veil_live_ or veil_test_")
        ELSE Constructed(
                apiKey.s,
                Coalesce(IF IsNullish(baseUrl) THEN Undef
                         ELSE Str(StripTrailingSlash(baseUrl.s)),
                         Str(DEFAULT_BASE_URL)).s,
                Coalesce(timeout, Num(DEFAULT_TIMEOUT)).n)

\* new HttpClient(config)
HttpClientConstructor(config) ==
    LET apiKey == Get(config, "apiKey")
        baseUrl == Get(config, "baseUrl")
        timeout == Get(config, "timeout")
    IN  IF ~Truthy(apiKey)
        THEN ConstructorThrew("API key is required")
        ELSE IF ~StartsWith(apiKey.s, LivePrefix) /\ ~StartsWith(apiKey.s, TestPrefix)
        THEN ConstructorThrew("Invalid API key format. API keys should start with veil_live_ or veil_test_")
        ELSE Constructed(
                apiKey.s,
                Coalesce(IF IsNullish(baseUrl) THEN Undef
                         ELSE Str(StripTrailingSlash(baseUrl.s)),
                         Str(DEFAULT_BASE_URL)).s,
                Coalesce(timeout, Num(DEFAULT_TIMEOUT)).n)

\* new VeilMail(apiKeyOrConfig)
VeilMailConstructor(apiKeyOrConfig) ==
    LET config == IF apiKeyOrConfig.t = "string"
                  THEN Obj([apiKey |-> apiKeyOrConfig])
                  ELSE apiKeyOrConfig
        http == HttpClientConstructor(config)
    IN  IF http.ok THEN [http EXCEPT !.facades = FacadeNames] ELSE http

\* `new URL(path, base)` accepts base only if it is an absolute URL; the
\* bases used here are http(s) URLs or have no scheme at all.
UrlParses(base) ==
    \E scheme \in {"http://", "https://"} :
        StartsWith(base, scheme) /\ Len(base) > Len(scheme)

(***************************************************************************)
(* Inputs                                                                  *)
(***************************************************************************)
ApiKeys ==
    {"", "abc123", "veil_", "veil_live", "VEIL_LIVE_abc", "xveil_test_abc",
     "veil_live_", "veil_live_abc", "veil_test_abc"}

BaseUrls ==
    {"https://api.example.test/", "http://localhost:3000", "api.veilmail.xyz", "",
     "https://proxy.example.test/api", "https://proxy.example.test/api/"}

Timeouts == {50}

\* The arguments `new VeilMail` is called with: a key string, or a config
\* object with or without an apiKey, a baseUrl and a timeout.
Args ==
    {Str(k) : k \in ApiKeys}
    \cup {Obj(NoFields), Obj([apiKey |-> Null])}
    \cup {Obj([apiKey |-> Str(k)]) : k \in ApiKeys}
    \cup {Obj([apiKey |-> Str("veil_test_abc"), baseUrl |-> Str(b)]) : b \in BaseUrls}
    \cup {Obj([apiKey |-> Str("veil_live_abc"), timeout |-> Num(t)]) : t \in Timeouts}
    \cup {Obj([apiKey |-> Str("abc123"), baseUrl |-> Str(b), timeout |-> Num(t)]) :
            b \in BaseUrls, t \in Timeouts}

MaxRetryAfter == 2

\* Values a server sends as `Retry-After: n`, 120 among them.
RetryAfterSeconds == (0..MaxRetryAfter) \cup {120}

Statuses == {200, 201, 204, 304, 400, 401, 403, 404, 409, 422, 429, 500, 503}

\* The reason phrase of an HTTP/1.1 status line; HTTP/2 has none.
ReasonPhrase(status) ==
    CASE status = 200 -> "OK"
      [] status = 201 -> "Created"
      [] status = 204 -> "No Content"
      [] status = 304 -> "Not Modified"
      [] status = 400 -> "Bad Request"
      [] status = 401 -> "Unauthorized"
      [] status = 403 -> "Forbidden"
      [] status = 404 -> "Not Found"
      [] status = 409 -> "Conflict"
      [] status = 422 -> "Unprocessable Entity"
      [] status = 429 -> "Too Many Requests"
      [] status = 500 -> "Internal Server Error"
      [] status = 503 -> "Service Unavailable"

ContentTypes ==
    {Null, Str("application/json"), Str("application/json; charset=utf-8"),
     Str("text/plain"), Str("Application/JSON")}

\* response.headers.get('Retry-After'): null, seconds, or an HTTP date.
RetryAfterHeaders(status) ==
    IF status \in {429, 503}
    THEN {Null, Str("Wed, 21 Oct 2026 07:28:00 GMT")}
         \cup {Str(ToString(n)) : n \in RetryAfterSeconds}
    ELSE {Null}

ResponseHead(status, statusText, contentType, retryAfter) ==
    [status |-> status, statusText |-> statusText, contentType |-> contentType,
     retryAfter |-> retryAfter, body |-> NoBody]

\* Status line and headers of the responses a server may send.
ResponseHeads ==
    UNION {{ResponseHead(st, tx, ct, ra) :
                tx \in {"", ReasonPhrase(st)}, ct \in ContentTypes,
                ra \in RetryAfterHeaders(st)} : st \in Statuses}

\* The heads tried for every client configuration.
CoreHeads ==
    {ResponseHead(st, ReasonPhrase(st), ct, Null) :
        st \in {200, 204, 404, 500}, ct \in {Str("application/json"), Str("text/plain")}}

Present(k, v) == IF v = Undef THEN {} ELSE {k}

\* {"error": {"code": c, "message": m, "details": d}}, a field left out
\* when its value here is undefined.
ErrorEnvelope(c, m, d) ==
    Obj([error |->
        Obj([k \in Present("code", c) \cup Present("message", m) \cup Present("details", d) |->
                CASE k = "code" -> c [] k = "message" -> m [] k = "details" -> d])])

ErrorCodes == {Undef, Str("pii_detected"), Str("recipient_suppressed"), Str("conflict")}

ErrorDetails ==
    {Undef, Null, Obj(NoFields),
     Obj([piiTypes |-> Arr(<<"SSN">>)]),
     Obj([piiTypes |-> Arr(<<>>)]),
     Obj([piiTypes |-> Arr(<<"SSN", "EMAIL">>), field |-> Str("html")]),
     Obj([piiTypes |-> Null]),
     Obj([suppressedRecipients |-> Arr(<<"user@example.com">>)])}

JsonValues ==
    {ErrorEnvelope(c, Str("Request failed"), d) : c \in ErrorCodes, d \in ErrorDetails}
    \cup {ErrorEnvelope(c, m, Undef) : c \in {Undef, Str("conflict")}, m \in {Undef, Null, Str("")}}
    \cup {Null, Obj(NoFields), Arr(<<>>), Obj([error |-> Null]),
          Obj([error |-> Str("bad request")]),
          Obj([id |-> Str("email_1")]),
          Obj([data |-> Obj([id |-> Str("email_1")])])}

\* The bodies a server may send: JSON texts, and texts that are not JSON.
ResponseBodies ==
    {JsonBody(v) : v \in JsonValues}
    \cup {TextBody(""), TextBody("OK"), TextBody("<html>Bad Gateway</html>")}

CoreBodies ==
    {JsonBody(Obj([id |-> Str("email_1")])),
     JsonBody(ErrorEnvelope(Str("conflict"), Str("Request failed"), Undef)),
     TextBody("<html>Bad Gateway</html>")}

\* contentType?.includes('application/json')
IsJsonContentType(contentType) ==
    ~IsNullish(contentType) /\ Includes(contentType.s, "application/json")

(***************************************************************************)
(* HttpClient.request                                                      *)
(***************************************************************************)
MaxInvocations == 2

Pending == [state |-> "pending", value |-> Undef, error |-> NoError]

\* The options argument of request: { body?, query?, headers? }.
Options(body, query, headers) == [body |-> body, query |-> query, headers |-> headers]

\* request(method, path) with the default `options = {}`.
NoOptions == Options(Undef, Undef, Undef)

\* An invocation that has not started.
IdleCall ==
    [method |-> "", path |-> "", phase |-> "idle", timer |-> "none", aborted |-> FALSE, net |-> "none",
     fetches |-> 0, elapsed |-> "before", response |-> NoResponse,
     thrown |-> NoError, outcome |-> Pending,
     query |-> NoFields, headers |-> NoFields, body |-> Undef,
     url |-> [href |-> "", search |-> NoFields], options |-> NoOptions]

\* String(value), for the values a query record holds.
String(v) ==
    CASE v.t = "string" -> v.s
      [] v.t = "number" -> ToString(v.n)
      [] v.t = "null" -> "null"
      [] v.t = "boolean" -> IF v.b THEN "true" ELSE "false"
      [] OTHER -> "undefined"

\* url.searchParams after the loop over Object.entries(options.query):
\* a parameter for every entry whose value is not undefined.
SearchParams(query) ==
    IF ~Truthy(query)
    THEN NoFields
    ELSE [k \in {x \in DOMAIN query.f : query.f[x] # Undef} |-> String(query.f[k])]

\* The position of the first "/" of s at or after position i, or Len(s) + 1.
RECURSIVE FirstSlash(_, _)
FirstSlash(s, i) ==
    IF i > Len(s) \/ SubSeq(s, i, i) = "/" THEN i ELSE FirstSlash(s, i + 1)

\* new URL(path, base) for a path that starts with "/" (every path the
\* client is called with does): a path-absolute reference replaces the
\* whole path of the base, so the URL is the origin of the base (scheme and
\* authority) followed by the path.
NewUrl(path, base) ==
    LET scheme == IF StartsWith(base, "https://") THEN "https://" ELSE "http://"
        origin == SubSeq(base, 1, FirstSlash(base, Len(scheme) + 1) - 1)
    IN  origin \o path

\* The application/x-www-form-urlencoded serialisation of a search
\* parameter, as url.toString() writes it.
RECURSIVE FormEncode(_)
FormEncode(s) ==
    LET c == SubSeq(s, 1, 1)
        encoded == CASE c = " " -> "+"
                     [] c = "&" -> "%26"
                     [] c = "=" -> "%3D"
                     [] c = "+" -> "%2B"
                     [] c = "@" -> "%40"
                     [] OTHER -> c
    IN  IF Len(s) = 0 THEN "" ELSE encoded \o FormEncode(SubSeq(s, 2, Len(s)))

\* url.toString(): the address and the encoded search parameters.
UrlToString(href, params) ==
    [href |-> href, search |-> [k \in DOMAIN params |-> FormEncode(params[k])]]

\* { ...a, ...b }: the properties of b replace those of a; spreading
\* undefined adds nothing.
Spread(a, b) == IF b.t = "object" THEN b.f @@ a ELSE a

\* The headers record handed to fetch.
RequestHeaders(apiKey, optionsHeaders) ==
    Spread([k \in {"Authorization", "Content-Type", "User-Agent"} |->
                CASE k = "Authorization" -> "Bearer " \o apiKey
                  [] k = "Content-Type" -> "application/json"
                  [] OTHER -> "@resonia/veilmail-sdk/0.2.0"],
           optionsHeaders)

\* body: options.body ? JSON.stringify(options.body) : undefined
RequestBody(body) == IF Truthy(body) THEN JsonText(body) ELSE Undef

\* The lower-case form of one character.
LowerChar(c) ==
    LET upper == "ABCDEFGHIJKLMNOPQRSTUVWXYZ"
        lower == "abcdefghijklmnopqrstuvwxyz"
    IN  IF \E i \in 1..Len(upper) : SubSeq(upper, i, i) = c
        THEN LET i == CHOOSE j \in 1..Len(upper) : SubSeq(upper, j, j) = c
             IN  SubSeq(lower, i, i)
        ELSE c

\* Header names are matched without regard to case: fetch builds a Headers
\* object from the record, which lower-cases every name.
RECURSIVE ToLowerCase(_)
ToLowerCase(s) ==
    IF s = "" THEN "" ELSE LowerChar(SubSeq(s, 1, 1)) \o ToLowerCase(SubSeq(s, 2, Len(s)))

\* The entries of a headers record that are the header `name` on the wire.
HeaderEntries(headers, name) ==
    {k \in DOMAIN headers : ToLowerCase(k) = ToLowerCase(name)}

\* return v
Resolve(c, v) ==
    [c EXCEPT !.phase = "settled",
              !.outcome = [state |-> "resolved", value |-> v, error |-> NoError]]

\* throw e, out of request
Reject(c, e) ==
    [c EXCEPT !.phase = "settled",
              !.outcome = [state |-> "rejected", value |-> Undef, error |-> e]]

\* clearTimeout(timeoutId)
ClearTimeout(c) == [c EXCEPT !.timer = IF @ = "armed" THEN "cleared" ELSE @]

\* controller.abort(): a pending fetch rejects with an AbortError.
Abort(c) ==
    [c EXCEPT !.aborted = TRUE,
              !.net = IF @ = "inflight" THEN "aborted" ELSE @,
              !.thrown = IF c.net = "inflight"
                         THEN PlainError("AbortError", "This operation was aborted")
                         ELSE @]

\* CatchError without the AbortError branch.
CatchErrorRethrowsAbort(timeout, error) ==
    IF error.name = "TypeError" /\ Includes(error.message.s, "fetch")
    THEN NetworkError("Network error: " \o error.message.s)
    ELSE error

\* The error the catch block throws for the error it caught.
CatchError(timeout, error) ==
    IF error.name = "AbortError"
    THEN TimeoutError(timeout)
    ELSE IF error.name = "TypeError" /\ Includes(error.message.s, "fetch")
    THEN NetworkError("Network error: " \o error.message.s)
    ELSE error

\* The catch block without its clearTimeout.
CatchKeepsTimer(cl, c, error) ==
    Reject([c EXCEPT !.thrown = error], CatchError(cl.timeout, error))

\* The catch block: error was thrown inside the try block.
Catch(cl, c, error) ==
    Reject([ClearTimeout(c) EXCEPT !.thrown = error], CatchError(cl.timeout, error))

\* request up to its first await: the URL, the controller, the timer, fetch.
BeginRequest(cl, method, path, options) ==
    LET c == [IdleCall EXCEPT !.method = method, !.path = path, !.options = options]
    IN  IF ~UrlParses(cl.baseUrl)
        THEN Reject([c EXCEPT !.thrown = PlainError("TypeError", "Invalid URL")],
                    PlainError("TypeError", "Invalid URL"))
        ELSE [c EXCEPT !.phase = "fetching", !.timer = "armed",
                       !.net = "inflight", !.fetches = 1,
                       !.query = SearchParams(options.query),
                       !.url = UrlToString(NewUrl(path, cl.baseUrl),
                                           SearchParams(options.query)),
                       !.headers = RequestHeaders(cl.apiKey, options.headers),
                       !.body = RequestBody(options.body)]

\* post(path, body): request('POST', path, { body })
HttpPost(path, body) ==
    [method |-> "POST", path |-> path, options |-> Options(body, Undef, Undef)]

\* get(path, query): request('GET', path, { query })
HttpGet(path, query) ==
    [method |-> "GET", path |-> path, options |-> Options(Undef, query, Undef)]

\* emails.send(params): this.http.post('/v1/emails', params)
EmailsSend == HttpPost("/v1/emails", Obj([subject |-> Str("Hello")]))

\* emails.get(id): this.http.get(`/v1/emails/${id}`)
EmailsGet == HttpGet("/v1/emails/email_1", Undef)

\* The facade calls made on the client.
FacadeCalls == {EmailsSend, EmailsGet}

\* The headers a caller of request passes in options.headers.
OptionsHeaders ==
    {Obj([k \in {"X-Request-Id"} |-> "req_1"]),
     Obj([k \in {"Authorization"} |-> "Bearer veil_test_other"]),
     Obj([k \in {"authorization"} |-> "Basic dXNlcjpwdw=="])}

\* A query with an undefined entry, with false, 0 and the empty string,
\* and with a value that needs encoding.
QueryOfAllKinds ==
    Obj([cursor |-> Undef, unread |-> Bool(FALSE), limit |-> Num(0), status |-> Str(""),
         email |-> Str("a b+c@example.test")])

\* request called with extra headers, and with a query.
DirectCalls ==
    {[method |-> "GET", path |-> "/v1/emails", options |-> Options(Undef, Undef, h)] :
        h \in OptionsHeaders}
    \cup {HttpGet("/v1/subscribers", QueryOfAllKinds)}

\* The calls made on every client configuration.
CallsTried == FacadeCalls \cup DirectCalls

\* OnResponse without the 204 branch: the body of a 204 is read like any other.
OnResponseReads204(c, head) ==
    [ClearTimeout(c) EXCEPT !.response = head, !.net = "headers", !.phase = "reading"]

\* fetch resolved with a response: the code after `await fetch(...)`.
OnResponse(c, head) ==
    LET c1 == [ClearTimeout(c) EXCEPT !.response = head, !.net = "headers"]
    IN  IF head.status = 204
        THEN Resolve(c1, Undef)
        ELSE [c1 EXCEPT !.phase = "reading"]

\* The body arrived in full: the code after `await response.json()/text()`.
OnBody(cl, c) ==
    LET r == c.response
    IN  IF IsJsonContentType(r.contentType) /\ ~JsonParses(r.body)
        THEN Catch(cl, c, PlainError("SyntaxError", "Unexpected token in JSON"))
        ELSE LET body == IF IsJsonContentType(r.contentType)
                         THEN ResponseJson(r.body)
                         ELSE ResponseText(r.body)
             IN  IF ~ResponseOk(r)
                 THEN Catch(cl, c, parseApiError(r, body))
                 ELSE Resolve(c, body)

Request(ops) ==
    /\ client.ok
    /\ call.phase \in {"idle", "settled"}
    /\ invocations < MaxInvocations
    /\ \E op \in ops : call' = BeginRequest(client, op.method, op.path, op.options)
    /\ invocations' = invocations + 1
    /\ netCalls' = netCalls + call'.fetches
    /\ UNCHANGED <<arg, client, facade, calls, app>>

\* Time passes for a pending call. The timer callback runs when the timeout
\* is reached, and a rejection is handled before any more time passes.
Tick ==
    /\ call.phase \in {"fetching", "reading"}
    /\ call.thrown = NoError
    /\ ~(call.timer = "armed" /\ call.elapsed = "at")
    /\ call.elapsed # "after"
    /\ call' = [call EXCEPT !.elapsed = IF @ = "before" THEN "at" ELSE "after"]
    /\ UNCHANGED <<arg, client, invocations, netCalls, facade, calls, app>>

\* One AbortController shared by all calls: abort() reaches every fetch.
AbortOthersShared(others) == [i \in DOMAIN others |-> Abort(others[i])]

\* What controller.abort() of one call does to the other calls in flight:
\* nothing, since `const controller = new AbortController()` is local to
\* each invocation and only its own fetch was given controller.signal.
AbortOthers(others) == others

\* setTimeout(() => controller.abort(), this.timeout)
TimerFires ==
    /\ call.timer = "armed"
    /\ call.elapsed = "at"
    /\ call.thrown = NoError
    /\ call' = Abort([call EXCEPT !.timer = "fired"])
    /\ calls' = AbortOthers(calls)
    /\ UNCHANGED <<arg, client, invocations, netCalls, facade, app>>

\* request is invoked while earlier invocations are pending: they stay
\* suspended at their await, with their own timer and controller.
RequestWhileInFlight(ops) ==
    /\ client.ok
    /\ call.phase \in {"fetching", "reading"}
    /\ invocations < MaxInvocations
    /\ \E op \in ops : call' = BeginRequest(client, op.method, op.path, op.options)
    /\ calls' = Append(calls, call)
    /\ invocations' = invocations + 1
    /\ netCalls' = netCalls + call'.fetches
    /\ UNCHANGED <<arg, client, facade, app>>

\* The event loop turns to another invocation: `call` is the one whose
\* timer, fetch or body read makes the next step.
Switch ==
    /\ \E i \in DOMAIN calls :
        /\ call' = calls[i]
        /\ calls' = [calls EXCEPT ![i] = call]
    /\ UNCHANGED <<arg, client, invocations, netCalls, facade, app>>

\* The connection cannot be made: fetch rejects.
FetchFails ==
    /\ call.phase = "fetching"
    /\ call.net = "inflight"
    /\ call.thrown = NoError
    /\ call' = [call EXCEPT !.net = "failed",
                            !.thrown = PlainError("TypeError", "fetch failed")]
    /\ UNCHANGED <<arg, client, invocations, netCalls, facade, calls, app>>

\* `await fetch(...)` throws the rejection into the catch block.
FetchRejected ==
    /\ call.phase = "fetching"
    /\ call.thrown # NoError
    /\ call' = Catch(client, call, call.thrown)
    /\ UNCHANGED <<arg, client, invocations, netCalls, facade, calls, app>>

FetchResolves(heads) ==
    /\ call.phase = "fetching"
    /\ call.net = "inflight"
    /\ call.thrown = NoError
    /\ \E head \in heads : call' = OnResponse(call, head)
    /\ UNCHANGED <<arg, client, invocations, netCalls, facade, calls, app>>

BodyArrives(bodies) ==
    /\ call.phase = "reading"
    /\ \E body \in bodies :
        call' = OnBody(client, [call EXCEPT !.response.body = body, !.net = "done"])
    /\ UNCHANGED <<arg, client, invocations, netCalls, facade, calls, app>>

\* The connection breaks while the body is read: json()/text() rejects.
BodyBreaks ==
    /\ call.phase = "reading"
    /\ call' = Catch(client, [call EXCEPT !.net = "failed"],
                     PlainError("TypeError", "terminated"))
    /\ UNCHANGED <<arg, client, invocations, netCalls, facade, calls, app>>

(***************************************************************************)
(* Resource facades                                                        *)
(***************************************************************************)
\* patch(path, body): request('PATCH', path, { body })
HttpPatch(path, body) ==
    [method |-> "PATCH", path |-> path, options |-> Options(body, Undef, Undef)]

\* delete(path): request('DELETE', path)
HttpDelete(path) == [method |-> "DELETE", path |-> path, options |-> NoOptions]

\* const { k, ...rest } = obj: the properties of obj other than those in ks.
Rest(obj, ks) == Obj([k \in DOMAIN obj.f \ ks |-> obj.f[k]])

\* Templates.mapTemplate(data)
mapTemplate(data) ==
    LET variablesSchema == Get(data, "variablesSchema")
        rest == Rest(data, {"variablesSchema"})
    IN  Obj([k \in {"variables"} |->
                IF Truthy(variablesSchema) THEN variablesSchema ELSE Arr(<<>>)]
            @@ rest.f)

Returns(v) == [state |-> "resolved", value |-> v, error |-> NoError]
Throws(e) == [state |-> "rejected", value |-> Undef, error |-> e]

\* A facade method that swallows the error of its transport call and
\* resolves with undefined.
FacadeReturnSwallows(shape, transport) ==
    IF transport.state = "rejected"
    THEN Returns(Undef)
    ELSE Returns(transport.value)

\* What a facade method does once its transport call has settled. No method
\* has a try block: a rejected `await this.http...` rejects the method with
\* the same error. Otherwise the method returns the response as it is
\* ("asis"), returns response.data ("data"), returns
\* this.mapTemplate(response.data) ("template"), or returns nothing ("void").
\* Reading a property of, or destructuring, undefined or null throws a
\* TypeError.
FacadeReturn(shape, transport) ==
    IF transport.state = "rejected"
    THEN Throws(transport.error)
    ELSE LET response == transport.value
         IN  CASE shape = "asis" -> Returns(response)
               [] shape = "void" -> Returns(Undef)
               [] shape = "data" ->
                    IF IsNullish(response)
                    THEN Throws(PlainError("TypeError", "Cannot read properties of undefined (reading 'data')"))
                    ELSE Returns(Get(response, "data"))
               [] shape = "template" ->
                    IF IsNullish(response)
                    THEN Throws(PlainError("TypeError", "Cannot read properties of undefined (reading 'data')"))
                    ELSE IF IsNullish(Get(response, "data"))
                    THEN Throws(PlainError("TypeError", "Cannot destructure property 'variablesSchema' of 'data' as it is undefined."))
                    ELSE Returns(mapTemplate(Get(response, "data")))

\* A facade method: the resource it belongs to, its role among the methods
\* of the resource, the arguments it was called with, the one transport
\* call it makes, and the shape of what it returns.
Method(resource, role, name, params, request, shape) ==
    [resource |-> resource, role |-> role, name |-> name, params |-> params,
     request |-> request, shape |-> shape]

\* The arguments the facade methods are called with.
CreateParams == Obj([name |-> Str("A")])
ResourceId == "r_1"

\* A method that posts its params to path.
Creates(resource, name, path, shape) ==
    Method(resource, "create", name, CreateParams, HttpPost(path, CreateParams), shape)

\* A method that gets path/id.
Gets(resource, name, path, shape) ==
    Method(resource, "get", name, Str(ResourceId), HttpGet(path \o ResourceId, Undef), shape)

\* emails.send(params) and emails.get(id): the response as it is.
EmailsSendMethod == Method("emails", "create", "send", CreateParams, EmailsSend, "asis")
EmailsGetMethod == Method("emails", "get", "get", Str("email_1"), EmailsGet, "asis")

\* domains.create(params): response.data
DomainsCreate == Creates("domains", "create", "/v1/domains", "data")

\* domains.get that returns the response as it is.
DomainsGetAsIs == Gets("domains", "get", "/v1/domains/", "asis")

\* domains.get(id): response.data
DomainsGet == Gets("domains", "get", "/v1/domains/", "data")

\* domains.update(id, params): the response as it is.
DomainsUpdate ==
    Method("domains", "update", "update", CreateParams,
           HttpPatch("/v1/domains/" \o ResourceId, CreateParams), "asis")

\* properties.create(params) and properties.get(id): response.data
PropertiesCreate == Creates("properties", "create", "/v1/properties", "data")
PropertiesGet == Gets("properties", "get", "/v1/properties/", "data")

\* The create (add) and get methods of the other resources. Audiences,
\* Subscribers, Campaigns and Webhooks return response.data; Sequences,
\* Forms, Feeds, Topics, Smtp, Inbound and DedicatedIps return the response
\* as it is. dedicatedIps.create() posts no body.
OtherResourceMethods ==
    {Creates("audiences", "create", "/v1/audiences", "data"),
     Gets("audiences", "get", "/v1/audiences/", "data"),
     Creates("subscribers", "add", "/v1/audiences/aud_1/subscribers", "data"),
     Gets("subscribers", "get", "/v1/audiences/aud_1/subscribers/", "data"),
     Creates("campaigns", "create", "/v1/campaigns", "data"),
     Gets("campaigns", "get", "/v1/campaigns/", "data"),
     Creates("webhooks", "create", "/v1/webhooks", "data"),
     Gets("webhooks", "get", "/v1/webhooks/", "data"),
     Creates("sequences", "create", "/v1/sequences", "asis"),
     Gets("sequences", "get", "/v1/sequences/", "asis"),
     Creates("forms", "create", "/v1/forms", "asis"),
     Gets("forms", "get", "/v1/forms/", "asis"),
     Creates("feeds", "create", "/v1/feeds", "asis"),
     Gets("feeds", "get", "/v1/feeds/", "asis"),
     Creates("topics", "create", "/v1/topics", "asis"),
     Gets("topics", "get", "/v1/topics/", "asis"),
     Creates("smtp", "createCredential", "/v1/smtp/credentials", "asis"),
     Gets("smtp", "getCredential", "/v1/smtp/credentials/", "asis"),
     Creates("inbound", "createRule", "/v1/inbound/rules", "asis"),
     Gets("inbound", "getRule", "/v1/inbound/rules/", "asis"),
     Method("dedicatedIps", "create", "create", Undef, HttpPost("/v1/dedicated-ips", Undef), "asis"),
     Gets("dedicatedIps", "get", "/v1/dedicated-ips/", "asis")}

\* The methods that create or fetch one resource, templates apart.
ResourceMethods ==
    {EmailsSendMethod, EmailsGetMethod, DomainsCreate, DomainsGet, DomainsUpdate,
     PropertiesCreate, PropertiesGet}
    \cup OtherResourceMethods

\* A template variables list V, and the parameters templates.create and
\* templates.update are called with: without variables, with V, with [].
TemplateVariables == Arr(<<Obj([name |-> Str("firstName"), type |-> Str("string")])>>)

TemplateParams ==
    {Obj([name |-> Str("A")]),
     Obj([name |-> Str("A"), variables |-> TemplateVariables]),
     Obj([name |-> Str("A"), variables |-> Arr(<<>>)])}

\* templates.create that sends params as they are.
TemplatesCreateSendsParams(params) ==
    Method("templates", "create", "create", params, HttpPost("/v1/templates", params), "template")

\* templates.create(params)
TemplatesCreate(params) ==
    LET variables == Get(params, "variables")
        rest == Rest(params, {"variables"})
        body == Obj(Spread(rest.f, IF Truthy(variables)
                                   THEN Obj([variablesSchema |-> variables])
                                   ELSE variables))
    IN  Method("templates", "create", "create", params, HttpPost("/v1/templates", body), "template")

\* templates.get(id)
TemplatesGet ==
    Method("templates", "get", "get", Str(ResourceId),
           HttpGet("/v1/templates/" \o ResourceId, Undef), "template")

\* templates.update(id, params)
TemplatesUpdate(params) ==
    LET variables == Get(params, "variables")
        rest == Rest(params, {"variables"})
        body == Obj(Spread(rest.f, IF variables # Undef
                                   THEN Obj([variablesSchema |-> variables])
                                   ELSE Bool(FALSE)))
    IN  Method("templates", "update", "update", params,
               HttpPatch("/v1/templates/" \o ResourceId, body), "template")

\* templates.generateAndSave(params)
TemplatesGenerateAndSave ==
    Method("templates", "generateAndSave", "generateAndSave", Obj([prompt |-> Str("Newsletter")]),
           HttpPost("/v1/templates/generate-and-save", Obj([prompt |-> Str("Newsletter")])),
           "template")

\* templates.removePresence(templateId): returns nothing.
TemplatesRemovePresence ==
    Method("templates", "removePresence", "removePresence", Str(ResourceId),
           HttpDelete("/v1/templates/" \o ResourceId \o "/presence"), "void")

TemplateMethods ==
    {TemplatesCreate(p) : p \in TemplateParams}
    \cup {TemplatesUpdate(p) : p \in TemplateParams}
    \cup {TemplatesGet, TemplatesGenerateAndSave, TemplatesRemovePresence}

\* emails.list that forwards the limit but not the cursor.
EmailsListDropsCursor(params) ==
    Method("emails", "list", "list", params,
           HttpGet("/v1/emails", Obj([limit |-> OptGet(params, "limit")])), "asis")

\* emails.list(params)
EmailsList(params) ==
    Method("emails", "list", "list", params,
           HttpGet("/v1/emails",
                   Obj([limit |-> OptGet(params, "limit"),
                        cursor |-> OptGet(params, "cursor"),
                        status |-> OptGet(params, "status"),
                        tag |-> OptGet(params, "tag"),
                        after |-> OptGet(params, "after"),
                        before |-> OptGet(params, "before")])),
           "asis")

\* templates.list(params)
TemplatesList(params) ==
    Method("templates", "list", "list", params,
           HttpGet("/v1/templates", Obj([limit |-> OptGet(params, "limit"),
                                         cursor |-> OptGet(params, "cursor")])),
           "asis")

\* The list methods of the other resources: each forwards limit and cursor
\* (Subscribers.list and AuditLogs.list with their filters) and returns the
\* response as it is.
OtherListMethods(params) ==
    {Method("subscribers", "list", "list", params,
            HttpGet("/v1/audiences/aud_1/subscribers",
                    Obj([limit |-> OptGet(params, "limit"),
                         cursor |-> OptGet(params, "cursor"),
                         status |-> OptGet(params, "status"),
                         email |-> OptGet(params, "email")])),
            "asis"),
     Method("auditLogs", "list", "list", params,
            HttpGet("/v1/audit-logs",
                    Obj([actorId |-> OptGet(params, "actorId"),
                         action |-> OptGet(params, "action"),
                         resourceType |-> OptGet(params, "resourceType"),
                         resourceId |-> OptGet(params, "resourceId"),
                         status |-> OptGet(params, "status"),
                         from |-> OptGet(params, "from"),
                         to |-> OptGet(params, "to"),
                         limit |-> OptGet(params, "limit"),
                         cursor |-> OptGet(params, "cursor")])),
            "asis")}
    \cup {Method(r, "list", "list", params,
                 HttpGet("/v1/" \o r, Obj([limit |-> OptGet(params, "limit"),
                                           cursor |-> OptGet(params, "cursor")])),
                 "asis") :
            r \in {"domains", "audiences", "campaigns", "sequences", "webhooks"}}

\* The dataset of the server behind every list endpoint: two items.
Dataset == <<Obj([id |-> Str("item_1")]), Obj([id |-> Str("item_2")])>>

\* The cursor that stands for "after the i-th item".
CursorAfter(i) == Dataset[i].f.id.s

\* Number of items per page when the request names no limit.
DefaultPageSize == 20

\* The page the server answers a list request with: the items after the
\* cursor, at most `limit` of them, hasMore, and a nextCursor when there are
\* more.
ServerPage(query) ==
    LET limit == IF "limit" \in DOMAIN query /\ ParseInt(query.limit) # NaN
                 THEN ParseInt(query.limit).n
                 ELSE DefaultPageSize
        after == IF "cursor" \in DOMAIN query
                 THEN {i \in 1..Len(Dataset) : CursorAfter(i) = query.cursor}
                 ELSE {}
        first == IF after = {} THEN 1 ELSE (CHOOSE i \in after : TRUE) + 1
        last == IF first + limit - 1 < Len(Dataset) THEN first + limit - 1 ELSE Len(Dataset)
        hasMore == last < Len(Dataset)
    IN  Obj([k \in {"data", "hasMore"} \cup (IF hasMore THEN {"nextCursor"} ELSE {}) |->
                CASE k = "data" -> Arr(SubSeq(Dataset, first, last))
                  [] k = "hasMore" -> Bool(hasMore)
                  [] OTHER -> Str(CursorAfter(last))])

\* The parameters list methods are called with.
ListParams ==
    {Undef, Obj([limit |-> Num(1)]), Obj([limit |-> Num(2)]),
     Obj([status |-> Str("delivered")])}
    \cup {Obj([limit |-> Num(1), cursor |-> Str(CursorAfter(i))]) : i \in 1..Len(Dataset)}

ListMethods ==
    {EmailsList(p) : p \in ListParams}
    \cup UNION {{TemplatesList(p)} \cup OtherListMethods(p) :
                    p \in {Obj([limit |-> Num(1)]),
                           Obj([limit |-> Num(1), cursor |-> Str(CursorAfter(1))])}}

\* campaigns.schedule(id, params), send(id), pause(id), resume(id) and
\* cancel(id): one post to /v1/campaigns/{id}/{operation}, with the params
\* of schedule as the body; response.data is returned.
CampaignsOperations ==
    {Method("campaigns", "operation", "schedule", Str(id),
            HttpPost("/v1/campaigns/" \o id \o "/schedule",
                     Obj([scheduledAt |-> Str("2024-12-25T09:00:00Z")])),
            "data") : id \in {"campaign_1", "campaign_2"}}
    \cup {Method("campaigns", "operation", name, Str(id),
                 HttpPost("/v1/campaigns/" \o id \o "/" \o name, Undef), "data") :
            name \in {"send", "pause", "resume", "cancel"},
            id \in {"campaign_1", "campaign_2"}}

\* "Send multiple emails in a single request (max 100)".
DocumentedBatchMax == 100

\* The arrays a batch method is called with: empty, one item, and one item
\* more than the documented maximum.
BatchItems ==
    {Arr([i \in 1..n |-> Str("user" \o ToString(i) \o "@example.test")]) :
        n \in {0, 1, DocumentedBatchMax + 1}}

\* emails.sendBatch(emails) and validation.validateBatch(emails): one post
\* of { emails }.
BatchMethods ==
    {Method("emails", "batch", "sendBatch", emails,
            HttpPost("/v1/emails/batch", Obj([emails |-> emails])), "asis") :
        emails \in BatchItems}
    \cup {Method("validation", "batch", "validateBatch", emails,
                 HttpPost("/v1/emails/validate/batch", Obj([emails |-> emails])), "asis") :
            emails \in BatchItems}

\* Every facade method invoked on the client.
Methods ==
    ResourceMethods \cup TemplateMethods \cup ListMethods
        \cup CampaignsOperations \cup BatchMethods

\* The answers of the server to create, get and update of one resource:
\* enveloped in `data` or bare, with or without variablesSchema.
Payloads ==
    {Obj([data |-> Obj([id |-> Str(ResourceId), name |-> Str("A"),
                        variablesSchema |-> TemplateVariables])]),
     Obj([data |-> Obj([id |-> Str(ResourceId), name |-> Str("A"),
                        variablesSchema |-> Arr(<<>>)])]),
     Obj([data |-> Obj([id |-> Str(ResourceId), name |-> Str("A"),
                        variablesSchema |-> Null])]),
     Obj([data |-> Obj([id |-> Str(ResourceId), name |-> Str("A")])]),
     Obj([id |-> Str(ResourceId), name |-> Str("A")]),
     Null}

NoMethod == Method("", "", "", Undef, HttpGet("", Undef), "")

\* No create of the resource at hand has settled.
NoneCreated == [resource |-> "", answered |-> FALSE, outcome |-> Pending]

\* No facade method has been invoked.
NoFacadeCall ==
    [method |-> NoMethod, outcome |-> Pending, created |-> NoneCreated, server |-> Null]

\* Status line and headers the server answers the current request with.
ServerHeads ==
    {ResponseHead(IF call.method = "DELETE" THEN 204 ELSE 200,
                  IF call.method = "DELETE" THEN "No Content" ELSE "OK",
                  Str("application/json"), Null)}
    \cup {ResponseHead(st, ReasonPhrase(st), Str("application/json"), Null) :
            st \in {404, 500}}

\* The body that goes with them: the page asked for, the resource, or an
\* error envelope.
ServerBodies ==
    IF ResponseOk(call.response)
    THEN {JsonBody(IF facade.method.role = "list"
                   THEN ServerPage(call.query)
                   ELSE facade.server)}
    ELSE {JsonBody(ErrorEnvelope(Str("request_failed"), Str("Request failed"), Undef))}

\* The transport call of the current method was answered whole with a 2xx.
Answered == call.net = "done" /\ ResponseOk(call.response)

\* A facade method is invoked: it runs up to its `await this.http...`.
Invoke ==
    /\ client.ok
    /\ facade.method = NoMethod \/ facade.outcome # Pending
    /\ \E m \in Methods :
        /\ facade' = [facade EXCEPT !.method = m, !.outcome = Pending,
                                    !.created = IF @.resource = m.resource
                                                THEN @ ELSE NoneCreated]
        /\ call' = BeginRequest(client, m.request.method, m.request.path, m.request.options)
    /\ UNCHANGED <<arg, client, invocations, netCalls, calls, app>>

\* The transport call has settled: the method resumes after its await.
FacadeContinues ==
    /\ facade.method # NoMethod
    /\ facade.outcome = Pending
    /\ call.phase = "settled"
    /\ LET outcome == FacadeReturn(facade.method.shape, call.outcome)
       IN  facade' = [facade EXCEPT
                !.outcome = outcome,
                !.created = IF facade.method.role = "create"
                            THEN [resource |-> facade.method.resource,
                                  answered |-> Answered, outcome |-> outcome]
                            ELSE @]
    /\ UNCHANGED <<arg, client, call, invocations, netCalls, calls, app>>


\* The example application is not running.
NoApp == [running |-> FALSE]

(***************************************************************************)
(* The example application (examples/authjs-nextjs)                        *)
(***************************************************************************)
MaxTokens == 3

\* Time is counted in units of five minutes, up to MaxNow.
MaxNow == 13

\* tokens.ts: a verification or password-reset token lives one hour, a
\* two-factor code five minutes.
TokenLifetime == 12
TwoFactorLifetime == 1

AppEmails == {"ann@example.test"}
AppPasswords == {"correct-horse", "wrong-guess"}

\* The passwords given to newPassword: one too short, one long enough.
NewPasswords == {"short", "wrong-guess"}

\* The result of a server action that rejected with the error of
\* veilmail.emails.send instead of returning.
Thrown == "throws VeilMailError"

\* No row in the User table for an address.
NoUser ==
    [exists |-> FALSE, password |-> Null, emailVerified |-> FALSE,
     isTwoFactorEnabled |-> FALSE, twoFactorConfirmation |-> FALSE]

NoMail == [subject |-> "", to |-> "", token |-> 0]

\* The requests the server may be working on at the same time, and how many
\* requests are followed step by step in all.
Requests == {1, 2}
MaxRequests == 3

\* No row of a token table.
NoRow == [email |-> "", token |-> 0, expires |-> 0]

\* A request slot with no server action running in it.
IdleRequest ==
    [handler |-> "", pc |-> "idle", table |-> "", email |-> "", token |-> 0,
     password |-> "", row |-> NoRow, result |-> ""]
NoAction ==
    [action |-> "", email |-> "", token |-> 0, result |-> "", verified |-> FALSE,
     session |-> FALSE, tried |-> FALSE, mailed |-> FALSE, mail |-> NoMail]

\* The database, the mail the running server action handed to VeilMail, the
\* sessions started by a credentials sign-in, and the server action of the
\* last step with its result and its mail; then the server actions that are followed from await to await,
\* and for every token how many times it took effect.
InitialApp ==
    [running |-> TRUE,
     users |-> [e \in AppEmails |-> NoUser],
     verificationTokens |-> {},
     twoFactorTokens |-> {},
     passwordResetTokens |-> {},
     issued |-> 0,
     now |-> 0,
     mail |-> NoMail,
     mailed |-> FALSE,
     threw |-> FALSE,
     tried |-> FALSE,
     signedIn |-> FALSE,
     sessions |-> {},
     last |-> NoAction,
     requests |-> [r \in Requests |-> IdleRequest],
     begun |-> 0,
     uses |-> [t \in 1..MaxTokens |-> 0]]

\* An expiry test that never finds a token expired.
ExpiredNever(t, now) == FALSE

\* new Date(token.expires) < new Date()
Expired(t, now) == t.expires < now

\* generateVerificationToken(email), generatePasswordResetToken(email),
\* generateTwoFactorToken(email): the token found for the email is deleted
\* and a new one is created, which expires a lifetime from now.
GenerateToken(a, table, email) ==
    LET existing == {t \in a[table] : t.email = email}
        first == IF existing = {} THEN {} ELSE {CHOOSE t \in existing : TRUE}
        lifetime == IF table = "twoFactorTokens" THEN TwoFactorLifetime ELSE TokenLifetime
    IN  [a EXCEPT ![table] = (@ \ first) \cup {[email |-> email, token |-> a.issued + 1,
                                                expires |-> a.now + lifetime]},
                  !.issued = @ + 1]

\* sendVerificationEmail, sendTwoFactorEmail, sendWelcomeEmail, ...: one
\* awaited veilmail.emails.send, which rejects when VeilMail does not accept
\* the mail (the service is unreachable, the account is rate limited, the
\* recipient is suppressed); no sender and no server action catches that.
SendMail(a, accepts, subject, to, token) ==
    [a EXCEPT !.mail = [subject |-> subject, to |-> to, token |-> token],
              !.mailed = TRUE,
              !.threw = ~accepts]

\* What a server action returns, or that it threw, with what was true of
\* the user when it began, whether it handed a mail to VeilMail, whether it
\* called signIn and whether that sign-in was accepted.
Returned(a, before, action, email, result) ==
    [a EXCEPT !.last = [NoAction EXCEPT !.action = action, !.email = email,
                            !.result = IF a.threw THEN Thrown ELSE result,
                            !.verified = (email \in AppEmails
                                            /\ before.users[email].emailVerified),
                            !.session = a.signedIn, !.tried = a.tried,
                            !.mailed = a.mailed, !.mail = a.mail],
              !.mailed = FALSE,
              !.mail = NoMail,
              !.threw = FALSE,
              !.tried = FALSE,
              !.signedIn = FALSE]

\* The same for an action that was given a token or a code.
ReturnedFor(a, before, action, email, token, result) ==
    [Returned(a, before, action, email, result) EXCEPT !.last.token = token]

\* Credentials.authorize(credentials): the user, if the password matches.
authorize(a, email, password) ==
    /\ a.users[email].exists
    /\ a.users[email].password # Null
    /\ a.users[email].password = Str(password)

\* callbacks.signIn without the emailVerified test.
signInCallbackSkipsVerified(a, provider, email) ==
    LET user == a.users[email]
    IN  IF provider # "credentials" THEN [allowed |-> TRUE, app |-> a]
        ELSE IF user.isTwoFactorEnabled /\ ~user.twoFactorConfirmation
        THEN [allowed |-> FALSE, app |-> a]
        ELSE [allowed |-> TRUE,
              app |-> IF user.isTwoFactorEnabled
                      THEN [a EXCEPT !.users[email].twoFactorConfirmation = FALSE]
                      ELSE a]

\* callbacks.signIn that leaves the TwoFactorConfirmation in place.
signInCallbackKeepsConfirmation(a, provider, email) ==
    LET user == a.users[email]
    IN  IF provider # "credentials" THEN [allowed |-> TRUE, app |-> a]
        ELSE IF ~user.exists \/ ~user.emailVerified
        THEN [allowed |-> FALSE, app |-> a]
        ELSE IF user.isTwoFactorEnabled /\ ~user.twoFactorConfirmation
        THEN [allowed |-> FALSE, app |-> a]
        ELSE [allowed |-> TRUE, app |-> a]

\* callbacks.signIn({ user, account }): the confirmation is looked for, and
\* deleted, only for a user with isTwoFactorEnabled.
signInCallback(a, provider, email) ==
    LET user == a.users[email]
    IN  IF provider # "credentials" THEN [allowed |-> TRUE, app |-> a]
        ELSE IF ~user.exists \/ ~user.emailVerified
        THEN [allowed |-> FALSE, app |-> a]
        ELSE IF user.isTwoFactorEnabled /\ ~user.twoFactorConfirmation
        THEN [allowed |-> FALSE, app |-> a]
        ELSE [allowed |-> TRUE,
              app |-> IF user.isTwoFactorEnabled
                      THEN [a EXCEPT !.users[email].twoFactorConfirmation = FALSE]
                      ELSE a]

\* signIn('credentials', { email, password }): authorize, then the signIn
\* callback, then the session.
signIn(a, email, password) ==
    IF ~authorize(a, email, password)
    THEN [error |-> "CredentialsSignin", app |-> [a EXCEPT !.tried = TRUE]]
    ELSE LET cb == signInCallback(a, "credentials", email)
         IN  IF ~cb.allowed
             THEN [error |-> "AccessDenied", app |-> [cb.app EXCEPT !.tried = TRUE]]
             ELSE [error |-> "", app |-> [cb.app EXCEPT !.sessions = @ \cup {email},
                                                        !.tried = TRUE,
                                                        !.signedIn = TRUE]]

\* register(_prev, formData)
Register ==
    /\ app.running
    /\ \E email \in AppEmails :
        IF app.users[email].exists
        THEN app' = Returned(app, app, "register", email,
                             "An account with this email already exists")
        ELSE \E accepts \in BOOLEAN :
             LET created == [app EXCEPT !.users[email] =
                                [NoUser EXCEPT !.exists = TRUE,
                                               !.password = Str("correct-horse")]]
                 tokened == GenerateToken(created, "verificationTokens", email)
                 mailed == SendMail(tokened, accepts, "Verify your email address", email, tokened.issued)
             IN  app.issued < MaxTokens /\ app' = Returned(mailed, app, "register", email,
                                 "Verification email sent! Check your inbox.")
    /\ UNCHANGED <<arg, client, call, invocations, netCalls, facade, calls>>

\* verifyEmail(token)
VerifyEmail ==
    /\ app.running
    /\ \E token \in 1..MaxTokens :
        LET found == {t \in app.verificationTokens : t.token = token}
            t == CHOOSE x \in found : TRUE
        IN  IF found = {}
            THEN app' = ReturnedFor(app, app, "verifyEmail", "", token,
                                    "Invalid verification token")
            ELSE IF Expired(t, app.now)
            THEN app' = ReturnedFor(app, app, "verifyEmail", t.email, token,
                                    "Token has expired. Please register again.")
            ELSE IF ~app.users[t.email].exists
            THEN app' = ReturnedFor(app, app, "verifyEmail", t.email, token, "User not found")
            ELSE \E accepts \in BOOLEAN : app' = ReturnedFor(
                            SendMail([app EXCEPT !.users[t.email].emailVerified = TRUE,
                                                 !.verificationTokens = @ \ {t}],
                                     accepts, "Welcome to the platform!", t.email, 0),
                            app, "verifyEmail", t.email, token,
                            "Email verified! You can now sign in.")
    /\ UNCHANGED <<arg, client, call, invocations, netCalls, facade, calls>>

\* login(_prev, formData)
Login ==
    /\ app.running
    /\ \E email \in AppEmails, password \in AppPasswords \cup {""} :
        LET user == app.users[email]
        IN  IF password = ""
            THEN app' = Returned(app, app, "login", email, "Email and password are required")
            ELSE IF ~user.exists \/ user.password = Null
            THEN app' = Returned(app, app, "login", email, "Invalid email or password")
            ELSE IF ~user.emailVerified
            THEN \E accepts \in BOOLEAN :
                 LET tokened == GenerateToken(app, "verificationTokens", email)
                 IN  app.issued < MaxTokens /\ app' = Returned(
                        SendMail(tokened, accepts, "Verify your email address", email, tokened.issued),
                        app, "login", email,
                        "Email not verified. A new verification email has been sent.")
            ELSE IF user.isTwoFactorEnabled
            THEN \E accepts \in BOOLEAN :
                 LET tokened == GenerateToken(app, "twoFactorTokens", email)
                 IN  app.issued < MaxTokens /\ app' = Returned(
                        SendMail(tokened, accepts, "Your verification code", email, tokened.issued),
                        app, "login", email, "twoFactor")
            ELSE LET signed == signIn(app, email, password)
                 IN  app' = Returned(signed.app, app, "login", email,
                            CASE signed.error = "" -> ""
                              [] signed.error = "CredentialsSignin" -> "Invalid email or password"
                              [] OTHER -> "Something went wrong")
    /\ UNCHANGED <<arg, client, call, invocations, netCalls, facade, calls>>

\* verifyTwoFactor(_prev, formData)
VerifyTwoFactor ==
    /\ app.running
    /\ \E email \in AppEmails, password \in AppPasswords, code \in 1..MaxTokens :
        LET found == {t \in app.twoFactorTokens : t.email = email /\ t.token = code}
            t == CHOOSE x \in found : TRUE
            deleted == [app EXCEPT !.twoFactorTokens = @ \ {t}]
            confirmed == [deleted EXCEPT !.users[email].twoFactorConfirmation = TRUE]
            signed == signIn(confirmed, email, password)
        IN  IF found = {}
            THEN app' = ReturnedFor(app, app, "verifyTwoFactor", email, code, "Invalid code")
            ELSE IF Expired(t, app.now)
            THEN app' = ReturnedFor(app, app, "verifyTwoFactor", email, code,
                                    "Code has expired. Please sign in again.")
            ELSE IF ~app.users[email].exists
            THEN app' = ReturnedFor(deleted, app, "verifyTwoFactor", email, code,
                                    "User not found")
            ELSE app' = ReturnedFor(signed.app, app, "verifyTwoFactor", email, code,
                                    IF signed.error = "" THEN ""
                                    ELSE "Authentication failed. Please try again.")
    /\ UNCHANGED <<arg, client, call, invocations, netCalls, facade, calls>>

\* A sign-in posted to the credentials provider of Auth.js directly, past
\* the login action.
CredentialsSignIn ==
    /\ app.running
    /\ \E email \in AppEmails, password \in AppPasswords :
        LET signed == signIn(app, email, password)
        IN  app' = Returned(signed.app, app, "signIn", email, signed.error)
    /\ UNCHANGED <<arg, client, call, invocations, netCalls, facade, calls>>

\* Time passes between two server actions: just more than the lifetime of a
\* two-factor code, or just more than the lifetime of a token.
TimePasses ==
    /\ app.running
    /\ \E d \in {TwoFactorLifetime + 1, TokenLifetime + 1} :
        /\ app.now + d <= MaxNow
        /\ app' = [app EXCEPT !.now = @ + d, !.last = NoAction]
    /\ UNCHANGED <<arg, client, call, invocations, netCalls, facade, calls>>

\* toggleTwoFactor(): called with the session of a user, or with none. When
\* it switches 2FA off, the confirmations are deleted after the mail was
\* sent.
ToggleTwoFactor ==
    /\ app.running
    /\ \E email \in app.sessions \cup {""} :
        IF email = ""
        THEN app' = Returned(app, app, "toggleTwoFactor", email, "Not authenticated")
        ELSE \E accepts \in BOOLEAN :
        LET newValue == ~app.users[email].isTwoFactorEnabled
            updated == [app EXCEPT !.users[email].isTwoFactorEnabled = newValue]
            disabled == SendMail(updated, accepts, "Two-factor authentication disabled", email, 0)
        IN  app' = Returned(
                IF newValue
                THEN SendMail(updated, accepts, "Two-factor authentication enabled", email, 0)
                ELSE IF disabled.threw THEN disabled
                ELSE [disabled EXCEPT !.users[email].twoFactorConfirmation = FALSE],
                app, "toggleTwoFactor", email,
                IF newValue THEN "Two-factor authentication enabled"
                ELSE "Two-factor authentication disabled")
    /\ UNCHANGED <<arg, client, call, invocations, netCalls, facade, calls>>

\* resetPassword(_prev, formData)
ResetPassword ==
    /\ app.running
    /\ \E email \in AppEmails \cup {""} :
        IF email = ""
        THEN app' = Returned(app, app, "resetPassword", email, "Email is required")
        ELSE IF ~app.users[email].exists
        THEN app' = Returned(app, app, "resetPassword", email,
                "If an account exists with that email, a reset link has been sent.")
        ELSE \E accepts \in BOOLEAN :
             LET tokened == GenerateToken(app, "passwordResetTokens", email)
             IN  app.issued < MaxTokens /\ app' = Returned(
                    SendMail(tokened, accepts, "Reset your password", email, tokened.issued),
                    app, "resetPassword", email,
                    "If an account exists with that email, a reset link has been sent.")
    /\ UNCHANGED <<arg, client, call, invocations, netCalls, facade, calls>>

\* newPassword(_prev, formData), with a token in the form.
NewPassword ==
    /\ app.running
    /\ \E token \in 1..MaxTokens, password \in NewPasswords :
        LET found == {t \in app.passwordResetTokens : t.token = token}
            t == CHOOSE x \in found : TRUE
        IN  IF Len(password) < 8
            THEN app' = ReturnedFor(app, app, "newPassword", "", token,
                                    "Password must be at least 8 characters")
            ELSE IF found = {}
            THEN app' = ReturnedFor(app, app, "newPassword", "", token,
                                    "Invalid reset token")
            ELSE IF Expired(t, app.now)
            THEN app' = ReturnedFor(app, app, "newPassword", t.email, token,
                                    "Token has expired. Please request a new reset link.")
            ELSE IF ~app.users[t.email].exists
            THEN app' = ReturnedFor(app, app, "newPassword", t.email, token, "User not found")
            ELSE \E accepts \in BOOLEAN : app' = ReturnedFor(
                            SendMail([app EXCEPT !.users[t.email].password = Str(password),
                                                 !.passwordResetTokens = @ \ {t}],
                                     accepts, "Your password was changed", t.email, 0),
                            app, "newPassword", t.email, token,
                            "Password updated! You can now sign in.")
    /\ UNCHANGED <<arg, client, call, invocations, netCalls, facade, calls>>


\* db.<table>.delete({ where: { id } }): the row is removed; the delete
\* rejects when no row has the id.
DbDelete(a, table, row) ==
    IF row \in a[table]
    THEN [ok |-> TRUE, app |-> [a EXCEPT ![table] = @ \ {row}]]
    ELSE [ok |-> FALSE, app |-> a]

\* The server action in slot r returns the result, or has thrown.
Finish(a, r, result) ==
    [a EXCEPT !.requests[r].pc = "done",
              !.requests[r].result = IF a.threw THEN Thrown ELSE result,
              !.mailed = FALSE, !.mail = NoMail, !.threw = FALSE, !.tried = FALSE,
              !.signedIn = FALSE]

\* A request arrives while others may be under way: verifyEmail(token),
\* newPassword with a token and a password, verifyTwoFactor with an email, a
\* code and a password, or a call of generateVerificationToken,
\* generatePasswordResetToken or generateTwoFactorToken for an email.
RequestArrives ==
    /\ app.running
    /\ app.begun < MaxRequests
    /\ \E r \in Requests :
        /\ app.requests[r].pc \in {"idle", "done"}
        /\ \/ \E handler \in {"verifyEmail", "newPassword"}, token \in 1..MaxTokens :
                app' = [app EXCEPT !.begun = @ + 1,
                            !.requests[r] = [IdleRequest EXCEPT !.handler = handler,
                                                !.pc = "find", !.token = token,
                                                !.password = "wrong-guess"]]
           \/ \E email \in AppEmails, code \in 1..MaxTokens :
                app' = [app EXCEPT !.begun = @ + 1,
                            !.requests[r] = [IdleRequest EXCEPT !.handler = "verifyTwoFactor",
                                                !.pc = "find", !.email = email,
                                                !.token = code,
                                                !.password = "correct-horse"]]
           \/ \E email \in AppEmails,
                 table \in {"verificationTokens", "passwordResetTokens", "twoFactorTokens"} :
                app' = [app EXCEPT !.begun = @ + 1,
                            !.requests[r] = [IdleRequest EXCEPT !.handler = "generateToken",
                                                !.pc = "find", !.email = email,
                                                !.table = table]]
    /\ UNCHANGED <<arg, client, call, invocations, netCalls, facade, calls>>

\* verifyEmail(token), from one await to the next: the token is looked up
\* (and the user), emailVerified is written, the token is deleted, the
\* welcome mail is sent.
VerifyEmailContinues ==
    /\ app.running
    /\ \E r \in Requests, accepts \in BOOLEAN :
        LET q == app.requests[r]
            found == {t \in app.verificationTokens : t.token = q.token}
            t == CHOOSE x \in found : TRUE
            deleted == DbDelete(app, "verificationTokens", q.row)
        IN  /\ q.handler = "verifyEmail"
            /\ q.pc \in {"find", "update", "delete", "mail"}
            /\ app' =
                CASE q.pc = "find" ->
                        IF found = {} THEN Finish(app, r, "Invalid verification token")
                        ELSE IF Expired(t, app.now)
                        THEN Finish(app, r, "Token has expired. Please register again.")
                        ELSE IF ~app.users[t.email].exists
                        THEN Finish(app, r, "User not found")
                        ELSE [app EXCEPT !.requests[r].row = t, !.requests[r].pc = "update"]
                  [] q.pc = "update" ->
                        [app EXCEPT !.users[q.row.email].emailVerified = TRUE,
                                    !.uses[q.row.token] = @ + 1,
                                    !.requests[r].pc = "delete"]
                  [] q.pc = "delete" ->
                        IF deleted.ok
                        THEN [deleted.app EXCEPT !.requests[r].pc = "mail"]
                        ELSE Finish(app, r, "throws PrismaClientKnownRequestError")
                  [] OTHER ->
                        Finish(SendMail(app, accepts, "Welcome to the platform!",
                                        q.row.email, 0),
                               r, "Email verified! You can now sign in.")
    /\ UNCHANGED <<arg, client, call, invocations, netCalls, facade, calls>>

\* newPassword(_prev, formData), from one await to the next: the token is
\* looked up (and the user), the password is written, the token is deleted,
\* the notification is sent.
NewPasswordContinues ==
    /\ app.running
    /\ \E r \in Requests, accepts \in BOOLEAN :
        LET q == app.requests[r]
            found == {t \in app.passwordResetTokens : t.token = q.token}
            t == CHOOSE x \in found : TRUE
            deleted == DbDelete(app, "passwordResetTokens", q.row)
        IN  /\ q.handler = "newPassword"
            /\ q.pc \in {"find", "update", "delete", "mail"}
            /\ app' =
                CASE q.pc = "find" ->
                        IF found = {} THEN Finish(app, r, "Invalid reset token")
                        ELSE IF Expired(t, app.now)
                        THEN Finish(app, r,
                                "Token has expired. Please request a new reset link.")
                        ELSE IF ~app.users[t.email].exists
                        THEN Finish(app, r, "User not found")
                        ELSE [app EXCEPT !.requests[r].row = t, !.requests[r].pc = "update"]
                  [] q.pc = "update" ->
                        [app EXCEPT !.users[q.row.email].password = Str(q.password),
                                    !.uses[q.row.token] = @ + 1,
                                    !.requests[r].pc = "delete"]
                  [] q.pc = "delete" ->
                        IF deleted.ok
                        THEN [deleted.app EXCEPT !.requests[r].pc = "mail"]
                        ELSE Finish(app, r, "throws PrismaClientKnownRequestError")
                  [] OTHER ->
                        Finish(SendMail(app, accepts, "Your password was changed",
                                        q.row.email, 0),
                               r, "Password updated! You can now sign in.")
    /\ UNCHANGED <<arg, client, call, invocations, netCalls, facade, calls>>

\* verifyTwoFactor(_prev, formData), from one await to the next: the code is
\* looked up, the code is deleted, the confirmation is written (after the
\* user was looked up), signIn is called.
VerifyTwoFactorContinues ==
    /\ app.running
    /\ \E r \in Requests :
        LET q == app.requests[r]
            found == {t \in app.twoFactorTokens : t.email = q.email /\ t.token = q.token}
            t == CHOOSE x \in found : TRUE
            deleted == DbDelete(app, "twoFactorTokens", q.row)
            signed == signIn(app, q.email, q.password)
        IN  /\ q.handler = "verifyTwoFactor"
            /\ q.pc \in {"find", "delete", "upsert", "signIn"}
            /\ app' =
                CASE q.pc = "find" ->
                        IF found = {} THEN Finish(app, r, "Invalid code")
                        ELSE IF Expired(t, app.now)
                        THEN Finish(app, r, "Code has expired. Please sign in again.")
                        ELSE [app EXCEPT !.requests[r].row = t, !.requests[r].pc = "delete"]
                  [] q.pc = "delete" ->
                        IF deleted.ok
                        THEN [deleted.app EXCEPT !.requests[r].pc = "upsert"]
                        ELSE Finish(app, r, "throws PrismaClientKnownRequestError")
                  [] q.pc = "upsert" ->
                        IF ~app.users[q.email].exists
                        THEN Finish(app, r, "User not found")
                        ELSE [app EXCEPT !.users[q.email].twoFactorConfirmation = TRUE,
                                         !.uses[q.row.token] = @ + 1,
                                         !.requests[r].pc = "signIn"]
                  [] OTHER ->
                        Finish(signed.app, r,
                               IF signed.error = "" THEN ""
                               ELSE "Authentication failed. Please try again.")
    /\ UNCHANGED <<arg, client, call, invocations, netCalls, facade, calls>>

\* generateVerificationToken(email), generatePasswordResetToken(email),
\* generateTwoFactorToken(email), from one await to the next: findFirst
\* returns one of the rows of the email, or none; that row is deleted; the
\* new row is created.
GenerateTokenContinues ==
    /\ app.running
    /\ \E r \in Requests :
        LET q == app.requests[r]
            existing == {t \in app[q.table] : t.email = q.email}
            deleted == DbDelete(app, q.table, q.row)
            lifetime == IF q.table = "twoFactorTokens"
                        THEN TwoFactorLifetime ELSE TokenLifetime
        IN  /\ q.handler = "generateToken"
            /\ \/ /\ q.pc = "find"
                  /\ \/ /\ existing = {}
                        /\ app' = [app EXCEPT !.requests[r].pc = "create"]
                     \/ \E first \in existing :
                            app' = [app EXCEPT !.requests[r].row = first,
                                               !.requests[r].pc = "delete"]
               \/ /\ q.pc = "delete"
                  /\ app' = IF deleted.ok
                            THEN [deleted.app EXCEPT !.requests[r].pc = "create"]
                            ELSE Finish(app, r, "throws PrismaClientKnownRequestError")
               \/ /\ q.pc = "create"
                  /\ app.issued < MaxTokens
                  /\ app' = Finish([app EXCEPT ![q.table] = @ \cup
                                        {[email |-> q.email, token |-> app.issued + 1,
                                          expires |-> app.now + lifetime]},
                                               !.issued = @ + 1],
                                   r, "")
    /\ UNCHANGED <<arg, client, call, invocations, netCalls, facade, calls>>

\* signOut()
SignOut ==
    /\ app.running
    /\ \E email \in app.sessions :
        app' = Returned([app EXCEPT !.sessions = @ \ {email}], app, "signOut", email, "")
    /\ UNCHANGED <<arg, client, call, invocations, netCalls, facade, calls>>

(***************************************************************************)
(* Specifications                                                          *)
(***************************************************************************)
\* Every constructor argument, a few responses.
Init ==
    /\ arg \in Args
    /\ client = VeilMailConstructor(arg)
    /\ call = IdleCall
    /\ invocations = 0
    /\ netCalls = 0
    /\ facade = NoFacadeCall
    /\ calls = <<>>
    /\ app = NoApp

Next ==
    \/ Request(CallsTried)
    \/ Tick
    \/ TimerFires
    \/ FetchFails
    \/ FetchRejected
    \/ FetchResolves(CoreHeads)
    \/ BodyArrives(CoreBodies)
    \/ BodyBreaks

Spec == Init /\ [][Next]_vars

\* One client, every response.
InitResponses ==
    /\ arg = Str("veil_live_abc")
    /\ client = VeilMailConstructor(arg)
    /\ call = IdleCall
    /\ invocations = 0
    /\ netCalls = 0
    /\ facade = NoFacadeCall
    /\ calls = <<>>
    /\ app = NoApp

NextResponses ==
    \/ Request(FacadeCalls)
    \/ Tick
    \/ TimerFires
    \/ FetchFails
    \/ FetchRejected
    \/ FetchResolves(ResponseHeads)
    \/ BodyArrives(ResponseBodies)
    \/ BodyBreaks

SpecResponses == InitResponses /\ [][NextResponses]_vars

\* The facade methods, on a client with the default base URL and on one
\* whose base URL is no URL, against a server holding one resource and a
\* two-item dataset.
InitFacades ==
    /\ arg \in {Str("veil_live_abc"),
                Obj([apiKey |-> Str("veil_test_abc"), baseUrl |-> Str("api.veilmail.xyz")])}
    /\ client = VeilMailConstructor(arg)
    /\ call = IdleCall
    /\ invocations = 0
    /\ netCalls = 0
    /\ facade \in {[NoFacadeCall EXCEPT !.server = p] : p \in Payloads}
    /\ calls = <<>>
    /\ app = NoApp

NextFacades ==
    \/ Invoke
    \/ Tick
    \/ TimerFires
    \/ FetchFails
    \/ FetchRejected
    \/ FetchResolves(ServerHeads)
    \/ BodyArrives(ServerBodies)
    \/ BodyBreaks
    \/ FacadeContinues

\* The responses tried while several invocations are in flight.
ConcurrentHeads ==
    {ResponseHead(st, ReasonPhrase(st), Str("application/json"), Null) : st \in {200, 500}}

ConcurrentBodies ==
    {JsonBody(Obj([id |-> Str("email_1")])),
     JsonBody(ErrorEnvelope(Str("internal_error"), Str("Request failed"), Undef))}

\* Several invocations in flight on one client.
InitConcurrent ==
    /\ arg = Obj([apiKey |-> Str("veil_live_abc"), timeout |-> Num(50)])
    /\ client = VeilMailConstructor(arg)
    /\ call = IdleCall
    /\ invocations = 0
    /\ netCalls = 0
    /\ facade = NoFacadeCall
    /\ calls = <<>>
    /\ app = NoApp

NextConcurrent ==
    \/ Request(FacadeCalls)
    \/ RequestWhileInFlight(FacadeCalls)
    \/ Switch
    \/ Tick
    \/ TimerFires
    \/ FetchFails
    \/ FetchRejected
    \/ FetchResolves(ConcurrentHeads)
    \/ BodyArrives(ConcurrentBodies)
    \/ BodyBreaks

SpecConcurrent == InitConcurrent /\ [][NextConcurrent]_vars

SpecFacades == InitFacades /\ [][NextFacades]_vars

\* The example application on its own.
InitApp ==
    /\ arg = Str("veil_live_abc")
    /\ client = VeilMailConstructor(arg)
    /\ call = IdleCall
    /\ invocations = 0
    /\ netCalls = 0
    /\ facade = NoFacadeCall
    /\ calls = <<>>
    /\ app = InitialApp

NextApp ==
    \/ Register
    \/ VerifyEmail
    \/ Login
    \/ VerifyTwoFactor
    \/ CredentialsSignIn
    \/ ToggleTwoFactor
    \/ ResetPassword
    \/ NewPassword
    \/ SignOut
    \/ TimePasses

SpecApp == InitApp /\ [][NextApp]_vars

\* The example application with requests that overlap: a registration, then
\* server actions and token generations interleaved at their awaits.
NextRaces ==
    \/ Register
    \/ RequestArrives
    \/ VerifyEmailContinues
    \/ NewPasswordContinues
    \/ VerifyTwoFactorContinues
    \/ GenerateTokenContinues

SpecAppRaces == InitApp /\ [][NextRaces]_vars

(***************************************************************************)
(* Properties                                                              *)
(***************************************************************************)
Settled == call.phase = "settled"
Rejected == call.outcome.state = "rejected"
Resolved == call.outcome.state = "resolved"

\* The response of the current call was received whole: status line,
\* headers and the complete body.
ReceivedWhole == call.net = "done"

\* The body as the client is to read it: the JSON value when the response
\* is declared as JSON and is JSON.
SentJson ==
    IF IsJsonContentType(call.response.contentType) /\ call.response.body.kind = "json"
    THEN call.response.body.value
    ELSE Undef

SentError == OptGet(SentJson, "error")

\* The error kinds of the status table.
KindsOfStatus(status) ==
    CASE status = 401 -> {"AuthenticationError"}
      [] status = 403 -> {"ForbiddenError"}
      [] status = 404 -> {"NotFoundError"}
      [] status = 422 -> {"ValidationError", "PiiDetectedError"}
      [] status = 429 -> {"RateLimitError"}
      [] status >= 500 -> {"ServerError"}
      [] OTHER -> {"VeilMailError"}

\* C1: whenever a call has received a response with a non-2xx status, with
\* whatever body, it has rejected with the error kind the status fixes.
C1_KindFixedByStatus ==
    (Settled /\ ReceivedWhole /\ ~ResponseOk(call.response))
        => (Rejected /\ call.outcome.error.name \in KindsOfStatus(call.response.status))

\* C2: once the timer of a call has fired, its controller is aborted, the
\* fetch is no longer in flight, and the call rejects with a TimeoutError
\* (code 'timeout', the configured timeout in the message); no call ever
\* rejects with an AbortError.
C2_TimeoutRejects ==
    /\ call.outcome.error.name # "AbortError"
    /\ call.timer = "fired" =>
        /\ call.aborted
        /\ call.net = "aborted"
        /\ Settled =>
            /\ Rejected
            /\ call.outcome.error.name = "TimeoutError"
            /\ call.outcome.error.code = Str("timeout")
            /\ call.outcome.error.message =
                Str("Request timed out after " \o ToString(client.timeout) \o "ms")
            /\ (Get(arg, "timeout") = Num(50) =>
                    call.outcome.error.message = Str("Request timed out after 50ms"))
            /\ (Get(arg, "timeout") = Undef =>
                    call.outcome.error.message = Str("Request timed out after 30000ms"))

C2_Witness ==
    /\ Settled
    /\ call.timer = "fired"
    /\ call.outcome.error.name = "TimeoutError"
    /\ client.timeout = 50

\* The API key of a constructor argument.
KeyGiven == IF arg.t = "string" THEN arg ELSE Get(arg, "apiKey")

HasKeyPrefix ==
    /\ KeyGiven.t = "string"
    /\ StartsWith(KeyGiven.s, "veil_live_") \/ StartsWith(KeyGiven.s, "veil_test_")

\* C3: construction succeeds exactly for a key that starts with veil_live_
\* or veil_test_; otherwise the constructor threw, there is no client and no
\* facade, and no request or network call is ever made.
C3_KeyValidatedAtConstruction ==
    /\ HasKeyPrefix =>
        /\ client.ok
        /\ client.apiKey = KeyGiven.s
        /\ client.facades = FacadeNames
    /\ ~HasKeyPrefix =>
        /\ ~client.ok
        /\ client.thrown.name = "Error"
        /\ client.facades = {}
        /\ call = IdleCall
        /\ invocations = 0
        /\ netCalls = 0

C3_Witness ==
    /\ arg = Obj([apiKey |-> Str("abc123"), baseUrl |-> Str("http://localhost:3000"),
                  timeout |-> Num(50)])
    /\ ~client.ok
    /\ client.thrown.message =
        Str("Invalid API key format. API keys should start with veil_live_ or veil_test_")

\* The 422 case of the PII rule: code pii_detected and a list of piiTypes.
PiiSent ==
    /\ OptGet(SentError, "code") = Str("pii_detected")
    /\ OptGet(OptGet(SentError, "details"), "piiTypes").t = "array"

\* C4: a 422 response with code pii_detected and details.piiTypes = L has
\* rejected with a PiiDetectedError whose piiTypes is L; every other 422
\* response has rejected with a ValidationError carrying the body's details.
C4_PiiOrValidation ==
    (Settled /\ ReceivedWhole /\ call.response.status = 422) =>
        /\ Rejected
        /\ IF PiiSent
           THEN /\ call.outcome.error.name = "PiiDetectedError"
                /\ call.outcome.error.piiTypes = Get(Get(SentError, "details"), "piiTypes")
           ELSE /\ call.outcome.error.name = "ValidationError"
                /\ call.outcome.error.details = OptGet(SentError, "details")

\* C5: a RateLimitError carries the Retry-After seconds n of its response
\* in retryAfter and in details.retryAfter, and neither without the header.
C5_RetryAfterCarried ==
    (Settled /\ call.outcome.error.name = "RateLimitError") =>
        /\ call.response.retryAfter = Null =>
            /\ call.outcome.error.retryAfter = Undef
            /\ OptGet(call.outcome.error.details, "retryAfter") = Undef
        /\ \A n \in RetryAfterSeconds :
            call.response.retryAfter = Str(ToString(n)) =>
                /\ call.outcome.error.retryAfter = Num(n)
                /\ OptGet(call.outcome.error.details, "retryAfter") = Num(n)

\* C6: when emails.send is answered 422 with code recipient_suppressed, the
\* error is a VeilMailError with that code and the server's
\* details.suppressedRecipients.
C6_SuppressedRecognised ==
    (/\ Settled /\ ReceivedWhole
     /\ call.method = EmailsSend.method /\ call.path = EmailsSend.path
     /\ call.response.status = 422
     /\ OptGet(SentError, "code") = Str("recipient_suppressed")) =>
        /\ Rejected
        /\ IsVeilMailError(call.outcome.error)
        /\ call.outcome.error.code = Str("recipient_suppressed")
        /\ OptGet(call.outcome.error.details, "suppressedRecipients") =
             OptGet(OptGet(SentError, "details"), "suppressedRecipients")

\* C7: no call is still pending once the configured timeout has passed.
C7_SettlesByTimeout ==
    call.elapsed = "after" => Settled

\* C8: a call whose transport failed has rejected with a NetworkError.
C8_TransportFailureTyped ==
    (Settled /\ call.net = "failed") =>
        /\ Rejected
        /\ call.outcome.error.name = "NetworkError"
        /\ call.outcome.error.code = Str("network_error")

NonJsonContentTypes == {Null, Str("text/plain"), Str("Application/JSON")}

\* C9: a 204 has resolved to undefined and no body was read; a 2xx other
\* than 204 whose content-type does not contain application/json has
\* resolved to the body text as sent, unparsed.
C9_EmptyAndTextResponses ==
    /\ (Settled /\ call.response.status = 204) =>
        /\ Resolved
        /\ call.outcome.value = Undef
        /\ call.response.body = NoBody
    /\ (/\ Settled /\ ReceivedWhole /\ call.response.status \in {200, 201}
        /\ call.response.contentType \in NonJsonContentTypes) =>
        /\ Resolved
        /\ call.outcome.value.t = "string"
        /\ (call.response.body.kind = "text" =>
                call.outcome.value = Str(call.response.body.text))
        /\ (call.response.body.kind = "json" =>
                call.outcome.value = JsonText(call.response.body.value))

C9_Witness ==
    /\ Settled
    /\ call.response.status = 200
    /\ call.response.contentType = Str("Application/JSON")
    /\ call.response.body = JsonBody(Obj([id |-> Str("email_1")]))
    /\ call.outcome.value = JsonText(Obj([id |-> Str("email_1")]))

\* C10: every invocation that has ended made exactly one fetch, and as many
\* fetches were made as there were invocations.
C10_ExactlyOneFetch ==
    /\ call.fetches <= 1
    /\ Settled => call.fetches = 1
    /\ call.phase # "idle" => netCalls = invocations

\* C11: every network call issued by request carries exactly one
\* Authorization header, and its value is 'Bearer ' followed by the API key
\* given at construction, whatever the method, the path and the headers the
\* caller passed in options.headers.
C11_OneBearerAuthorization ==
    call.fetches = 1 =>
        /\ Cardinality(HeaderEntries(call.headers, "Authorization")) = 1
        /\ \A k \in HeaderEntries(call.headers, "Authorization") :
                call.headers[k] = "Bearer " \o client.apiKey

\* C12: every VeilMailError a call rejects with has a non-empty message,
\* for every response and failure, including error responses with neither
\* an error.message nor a status text and bodies whose error.message is "".
C12_MessageNonEmpty ==
    (Settled /\ Rejected /\ IsVeilMailError(call.outcome.error))
        => call.outcome.error.message # Str("")

\* C13: on a client the constructor accepted, no request fails because of
\* the configuration before its network call is made.
C13_AcceptedConfigurationValid ==
    client.ok => ~(Settled /\ Rejected /\ call.fetches = 0)

\* The statuses of the last row of the status table: not 2xx, below 500,
\* and none of 401, 403, 404, 422, 429.
IsOtherStatus(status) ==
    /\ ~(status >= 200 /\ status <= 299)
    /\ status < 500
    /\ status \notin {401, 403, 404, 422, 429}

\* C15: a call that received a response with such a status (409, say) has
\* rejected with a base VeilMailError whose status is the response status,
\* whose code is the body's error.code ('unknown_error' when absent), whose
\* message is the body's error.message (the status text when absent) and
\* whose details are the body's error.details.
C15_OtherStatusIsBaseError ==
    (Settled /\ ReceivedWhole /\ IsOtherStatus(call.response.status)) =>
        /\ Rejected
        /\ call.outcome.error.name = "VeilMailError"
        /\ call.outcome.error.status = Num(call.response.status)
        /\ call.outcome.error.code =
                Coalesce(OptGet(SentError, "code"), Str("unknown_error"))
        /\ call.outcome.error.message =
                Coalesce(OptGet(SentError, "message"), Str(call.response.statusText))
        /\ call.outcome.error.details = OptGet(SentError, "details")

FacadeSettled == facade.method # NoMethod /\ facade.outcome # Pending

\* C14: a facade method whose transport call rejected with an error has
\* rejected with that same error (kind, code, status, message, details);
\* it has not resolved and has made no second transport call.
C14_FacadeRejectsWithSameError ==
    (FacadeSettled /\ call.outcome.state = "rejected") =>
        /\ facade.outcome.state = "rejected"
        /\ facade.outcome.error = call.outcome.error
        /\ call.fetches <= 1

C14_Witness ==
    /\ FacadeSettled
    /\ facade.method.shape = "data"
    /\ call.outcome.state = "rejected"
    /\ call.outcome.error.name = "NotFoundError"
    /\ facade.outcome.error.name = "NotFoundError"

\* C17: when the server has answered the create (add, send) of a resource
\* and then the get of the same resource with the same payload, the get has
\* settled exactly as the create did: the same value returned.
C17_CreateAndGetAgree ==
    (/\ FacadeSettled
     /\ facade.method.role = "get"
     /\ Answered
     /\ facade.created.resource = facade.method.resource
     /\ facade.created.answered)
        => facade.outcome = facade.created.outcome

C17_Witness ==
    /\ FacadeSettled
    /\ facade.method = DomainsGet
    /\ Answered
    /\ facade.created.resource = "domains"
    /\ facade.created.answered
    /\ facade.outcome = Returns(Obj([id |-> Str(ResourceId), name |-> Str("A")]))

\* The list call at hand was answered by the server with a page.
ListAnswered == FacadeSettled /\ facade.method.role = "list" /\ Answered

\* The page descriptor the server sent.
SentPage == call.response.body.value

\* C18: a list call the server answered has issued one request, which
\* carries the given limit and cursor, and has returned the server's page
\* descriptor unchanged. With the two-item dataset, list({limit: 1}) returns
\* the first item, hasMore true and a non-empty nextCursor, and
\* list({limit: 1, cursor: thatCursor}) returns the second item and hasMore
\* false: no further page is fetched or added by the client.
C18_ListForwardsPagination ==
    ListAnswered =>
        LET params == facade.method.params
            limit == OptGet(params, "limit")
            cursor == OptGet(params, "cursor")
            page == facade.outcome.value
        IN  /\ call.fetches = 1
            /\ limit # Undef => ("limit" \in DOMAIN call.query /\ call.query.limit = String(limit))
            /\ cursor # Undef => ("cursor" \in DOMAIN call.query /\ call.query.cursor = cursor.s)
            /\ facade.outcome = Returns(SentPage)
            /\ params = Obj([limit |-> Num(1)]) =>
                    /\ Get(page, "data") = Arr(<<Dataset[1]>>)
                    /\ Get(page, "hasMore") = Bool(TRUE)
                    /\ Get(page, "nextCursor") = Str(CursorAfter(1))
                    /\ CursorAfter(1) # ""
            /\ params = Obj([limit |-> Num(1), cursor |-> Str(CursorAfter(1))]) =>
                    /\ Get(page, "data") = Arr(<<Dataset[2]>>)
                    /\ Get(page, "hasMore") = Bool(FALSE)

C18_Witness ==
    /\ ListAnswered
    /\ facade.method = EmailsList(Obj([limit |-> Num(1), cursor |-> Str(CursorAfter(1))]))
    /\ Get(facade.outcome.value, "data") = Arr(<<Dataset[2]>>)

\* The body of the request at hand, as an object.
SentBody == call.body.jsonOf

\* The `data` of the server's answer.
SentData == OptGet(call.response.body.value, "data")

\* C19: templates.create and templates.update send a supplied variables
\* list V as the body field variablesSchema = V and never a field named
\* variables; when the data of the server's answer has variablesSchema = V,
\* create, get, update and generateAndSave return a template with
\* variables = V and no variablesSchema field, and with variables = [] when
\* the data has no variablesSchema.
C19_VariablesRoundTrip ==
    LET m == facade.method
        V == Get(m.params, "variables")
    IN  /\ (m.resource = "templates" /\ m.role \in {"create", "update"} /\ call.fetches = 1) =>
                /\ "variables" \notin DOMAIN SentBody.f
                /\ V.t = "array" => Get(SentBody, "variablesSchema") = V
                /\ V = Undef => "variablesSchema" \notin DOMAIN SentBody.f
        /\ (FacadeSettled /\ m.shape = "template" /\ Answered /\ SentData.t = "object") =>
                /\ facade.outcome.state = "resolved"
                /\ "variablesSchema" \notin DOMAIN facade.outcome.value.f
                /\ Get(SentData, "variablesSchema").t = "array" =>
                        Get(facade.outcome.value, "variables") = Get(SentData, "variablesSchema")
                /\ "variablesSchema" \notin DOMAIN SentData.f =>
                        Get(facade.outcome.value, "variables") = Arr(<<>>)
                /\ \A k \in DOMAIN SentData.f \ {"variablesSchema"} :
                        Get(facade.outcome.value, k) = SentData.f[k]

C19_Witness ==
    /\ FacadeSettled
    /\ facade.method = TemplatesUpdate(Obj([name |-> Str("A"), variables |-> TemplateVariables]))
    /\ call.fetches = 1
    /\ Get(SentBody, "variablesSchema") = TemplateVariables
    /\ Answered
    /\ Get(SentData, "variablesSchema") = TemplateVariables
    /\ Get(facade.outcome.value, "variables") = TemplateVariables

\* Every invocation there is: the one at hand and the suspended ones.
AllCalls == {call} \cup {calls[i] : i \in DOMAIN calls}

\* The outcome an invocation has when it runs alone, given what happened to
\* it: its own timer fired, its own fetch failed, its own body read broke,
\* or its own response arrived.
SoloOutcome(cl, c) ==
    CASE c.fetches = 0 -> Throws(PlainError("TypeError", "Invalid URL"))
      [] c.fetches = 1 /\ c.timer = "fired" -> Throws(TimeoutError(cl.timeout))
      [] c.fetches = 1 /\ c.timer # "fired" /\ c.net = "failed" ->
            IF c.response = NoResponse
            THEN Throws(NetworkError("Network error: fetch failed"))
            ELSE Throws(PlainError("TypeError", "terminated"))
      [] OTHER ->
            IF c.response.status = 204
            THEN Returns(Undef)
            ELSE OnBody(cl, [c EXCEPT !.phase = "reading", !.outcome = Pending]).outcome

\* C16: with several invocations in flight on one client, a controller is
\* aborted by the expiry of its own invocation's timer and by nothing else,
\* every invocation that has settled has the outcome it would have had
\* alone, and the client's apiKey, baseUrl and timeout are those of its
\* construction.
C16_CallsIndependent ==
    /\ client = VeilMailConstructor(arg)
    /\ \A c \in AllCalls :
        /\ c.aborted <=> c.timer = "fired"
        /\ c.phase = "settled" => c.outcome = SoloOutcome(client, c)

C16_Witness ==
    /\ Len(calls) >= 1
    /\ call.phase = "settled"
    /\ call.outcome.error.name = "TimeoutError"
    /\ calls[1].phase = "settled"
    /\ calls[1].outcome.state = "resolved"
    /\ calls[1].timer = "cleared"

\* The last action was a login with a password for a registered user with
\* a password whose email was not verified.
LoginOfUnverified ==
    /\ app.last.action = "login"
    /\ app.last.result \notin {"Email and password are required", "Invalid email or password"}
    /\ ~app.last.verified

\* C20: in the example application every session started by a credentials
\* sign-in belongs to a user whose emailVerified is set; a credentials
\* sign-in of an unverified user has been refused by the signIn callback;
\* and a login of an unverified user has started no session but has created
\* a new verification token and handed a verification email with it to
\* VeilMail.
C20_SignInNeedsVerifiedEmail ==
    /\ app.running =>
        /\ \A email \in app.sessions : app.users[email].emailVerified
        /\ (app.last.action \in {"signIn", "login", "verifyTwoFactor"} /\ ~app.last.verified)
                => ~app.last.session
        /\ (app.last.action = "signIn" /\ ~app.last.verified)
                => app.last.result \in {"AccessDenied", "CredentialsSignin"}
        /\ LoginOfUnverified =>
                /\ app.last.result \in
                        {"Email not verified. A new verification email has been sent.",
                         Thrown}
                /\ app.last.email \notin app.sessions
                /\ \E t \in app.verificationTokens :
                        t.email = app.last.email /\ t.token = app.issued
                /\ \A t \in app.verificationTokens \cup app.twoFactorTokens :
                        t.token <= app.issued
                /\ app.last.mail = [subject |-> "Verify your email address",
                               to |-> app.last.email, token |-> app.issued]

C20_Witness ==
    /\ app.running
    /\ LoginOfUnverified
    /\ app.issued >= 2
    /\ app.last.mail.token = app.issued

\* This step was the server action named, run for the email.
Acted(action, email) ==
    /\ app'.last.action = action
    /\ app'.last.email = email

\* The stored, unexpired two-factor codes of the email that the code given
\* in this step matches.
MatchedCodes(email) ==
    {t \in app.twoFactorTokens :
        t.email = email /\ t.token = app'.last.token /\ ~Expired(t, app.now)}

\* C21: in the example application a credentials sign-in of a user with
\* isTwoFactorEnabled is accepted only if a TwoFactorConfirmation of the user
\* exists, and the confirmation is gone once the sign-in is accepted; a
\* confirmation comes into being only in a verifyTwoFactor that matched a
\* stored, unexpired code of that email, and the matched code is deleted.
C21_ConfirmationAdmitsOneSignIn ==
    [][app.running =>
        \A email \in AppEmails :
            LET user == app.users[email]
                after == app'.users[email]
                verifies == Acted("verifyTwoFactor", email) /\ MatchedCodes(email) # {}
                accepted == /\ app'.last.email = email
                            /\ app'.last.session
                            /\ user.isTwoFactorEnabled
                created == /\ ~user.twoFactorConfirmation
                           /\ (after.twoFactorConfirmation \/ accepted)
            IN  /\ accepted => /\ user.twoFactorConfirmation \/ verifies
                               /\ ~after.twoFactorConfirmation
                /\ created => verifies
                /\ verifies => MatchedCodes(email) \cap app'.twoFactorTokens = {}]_vars

C21_Witness ==
    /\ app.running
    /\ app.last.action = "verifyTwoFactor"
    /\ app.last.session
    /\ app.last.token = 3
    /\ \E email \in AppEmails :
        /\ app.last.email = email
        /\ app.users[email].isTwoFactorEnabled
        /\ ~app.users[email].twoFactorConfirmation
        /\ app.twoFactorTokens = {}

\* The base URL the client was constructed with.
BaseUrlGiven ==
    LET given == IF arg.t = "string" THEN Undef ELSE Get(arg, "baseUrl")
    IN  IF IsNullish(given) THEN DEFAULT_BASE_URL ELSE given.s

\* C22: the URL fetched is the base URL without one trailing slash, followed
\* by the path, with a search parameter for exactly the query entries whose
\* value is not undefined, each holding String(value), URL-encoded.
C22_UrlIsBasePathQuery ==
    call.fetches = 1 =>
        LET query == call.options.query
            defined == IF query.t = "object"
                       THEN {k \in DOMAIN query.f : query.f[k] # Undef}
                       ELSE {}
        IN  /\ call.url.href = StripTrailingSlash(BaseUrlGiven) \o call.path
            /\ DOMAIN call.url.search = defined
            /\ \A k \in defined : call.url.search[k] = FormEncode(String(query.f[k]))
\* The path a campaign operation or a batch method posts to.
ForwardedPath ==
    IF facade.method.role = "operation"
    THEN "/v1/campaigns/" \o facade.method.params.s \o "/" \o facade.method.name
    ELSE IF facade.method.name = "sendBatch" THEN "/v1/emails/batch"
    ELSE "/v1/emails/validate/batch"

\* C23: a campaign operation or a batch method that has settled has issued
\* exactly one request, a POST to its own path; a batch method's body holds
\* all the items it was given, in their order; and the method rejects with
\* the error of the transport, or returns what the server answered.
C23_ForwardedWithoutGating ==
    (FacadeSettled /\ facade.method.role \in {"operation", "batch"}) =>
        /\ call.fetches = 1
        /\ call.method = "POST"
        /\ call.path = ForwardedPath
        /\ facade.method.role = "batch" =>
                call.body = JsonText(Obj([emails |-> facade.method.params]))
        /\ call.outcome.state = "rejected" => facade.outcome = Throws(call.outcome.error)
        /\ (Answered /\ facade.method.role = "batch") =>
                facade.outcome = Returns(SentPage)
        /\ (Answered /\ facade.method.role = "operation"
                /\ ~IsNullish(SentPage)) =>
                facade.outcome = Returns(Get(SentPage, "data"))
\* The error results of verifyEmail, newPassword and verifyTwoFactor for a
\* token or code that is unknown or expired, and of newPassword for a
\* password that is too short.
TokenRefused ==
    {"Invalid verification token", "Token has expired. Please register again.",
     "Invalid reset token", "Token has expired. Please request a new reset link.",
     "Invalid code", "Code has expired. Please sign in again.",
     "Password must be at least 8 characters"}

\* The stored tokens of a table that the token or code given in this step
\* names (for a two-factor code: together with the email given) and whose
\* expiry time has not passed.
LiveTokens(table) ==
    {t \in app[table] :
        /\ t.token = app'.last.token
        /\ table = "twoFactorTokens" => t.email = app'.last.email
        /\ ~(t.expires < app.now)}

\* C24: a verifyEmail, newPassword or verifyTwoFactor step that is given a
\* token or code that is not stored, or whose expiry time has passed, returns
\* an error and leaves the users (emailVerified, password, the
\* TwoFactorConfirmation), the three token tables and the sessions as they
\* were; it hands no mail to VeilMail and calls no signIn.
C24_RefusedTokenChangesNothing ==
    [][app.running =>
        \A pair \in {<<"verifyEmail", "verificationTokens">>,
                      <<"newPassword", "passwordResetTokens">>,
                      <<"verifyTwoFactor", "twoFactorTokens">>} :
            (app'.last.action = pair[1] /\ LiveTokens(pair[2]) = {}) =>
                /\ app'.last.result \in TokenRefused
                /\ app'.users = app.users
                /\ app'.verificationTokens = app.verificationTokens
                /\ app'.passwordResetTokens = app.passwordResetTokens
                /\ app'.twoFactorTokens = app.twoFactorTokens
                /\ ~app'.last.mailed
                /\ ~app'.last.tried
                /\ app'.sessions = app.sessions]_vars

C24_Witness ==
    /\ app.running
    /\ app.last.action = "newPassword"
    /\ app.last.result = "Token has expired. Please request a new reset link."
    /\ \E t \in app.passwordResetTokens :
            /\ t.token = app.last.token
            /\ t.expires < app.now
            /\ app.users[t.email].password = Str("correct-horse")
\* C25: a resetPassword that was given an email has returned the same
\* success message whether or not a user with that email exists, so its
\* outcome does not tell the two apart.
C25_ResetHidesAccount ==
    (app.running /\ app.last.action = "resetPassword" /\ app.last.email # "") =>
        app.last.result =
            "If an account exists with that email, a reset link has been sent."

\* C30: a toggleTwoFactor step with a session flips the user's
\* isTwoFactorEnabled, and when it has set it to false the user has no
\* TwoFactorConfirmation afterwards, whether or not the mail was accepted; a
\* toggleTwoFactor step without a session changes no user.
C30_DisablingRemovesConfirmation ==
    [][(app.running /\ app'.last.action = "toggleTwoFactor") =>
        /\ app'.last.email = "" => app'.users = app.users
        /\ \A email \in AppEmails :
            app'.last.email = email =>
                /\ app'.users[email].isTwoFactorEnabled
                        = ~app.users[email].isTwoFactorEnabled
                /\ ~app'.users[email].isTwoFactorEnabled
                        => ~app'.users[email].twoFactorConfirmation]_vars
\* The errors that request builds from an HTTP response: those of
\* parseApiError.
BuiltFromResponse ==
    /\ Settled /\ Rejected /\ ReceivedWhole
    /\ call.outcome.error.name \in
            VeilMailErrorNames \ {"TimeoutError", "NetworkError"}

\* C26: an error built from an HTTP response carries that response's status
\* in its status field.
C26_ErrorCarriesStatus ==
    BuiltFromResponse => call.outcome.error.status = Num(call.response.status)
\* C27: a call that has settled has no armed timer, and its controller is
\* aborted only if the abort is what settled it: its timer fired while the
\* fetch was pending and it rejected with the TimeoutError.
C27_SettledHasNoTimer ==
    \A c \in AllCalls :
        c.phase = "settled" =>
            /\ c.timer # "armed"
            /\ c.aborted => (c.timer = "fired" /\ c.outcome.error.name = "TimeoutError")

C27_Witness ==
    /\ call.phase = "settled"
    /\ call.timer = "cleared"
    /\ call.outcome.error.name = "NetworkError"
\* C28: no token takes effect more than once: a password-reset token has
\* changed a password, a verification token has set emailVerified and a
\* two-factor code has been accepted at most once, however the requests that
\* present it interleave.
C28_TokensSingleUse ==
    app.running => \A token \in 1..MaxTokens : app.uses[token] <= 1

\* C29: once the generate...Token calls that were made have returned, every
\* token table holds at most one token per email.
C29_OneTokenPerEmail ==
    (app.running /\ \A r \in Requests : app.requests[r].pc \in {"idle", "done"}) =>
        \A table \in {"verificationTokens", "passwordResetTokens", "twoFactorTokens"},
           email \in AppEmails :
            Cardinality({t \in app[table] : t.email = email}) <= 1
====
